---- MODULE Spec2Model ----
(***************************************************************************)
(* realflow-webhook: an Express server that receives call events from a   *)
(* voice assistant on POST /vapi/webhook, extracts a lead and appends one *)
(* row to a Google sheet.  The repository holds several variants of       *)
(* index.js; the model covers the FINAL variant (src/index.js 333-513),   *)
(* the regex-fallback variant (src/unnamed/part_000 176-326) and the      *)
(* extractLead variant (src/unnamed/part_001).                            *)
(*                                                                         *)
(* A JavaScript string is a sequence of one-character strings.  A JSON    *)
(* value is a record [t, s, o, a]: its type, its text (string, number,    *)
(* boolean), its properties (object) and its elements (array).            *)
(***************************************************************************)
EXTENDS Integers, Sequences, FiniteSets, TLC

\* ------------------------------------------------------------ characters

Lower == <<"a","b","c","d","e","f","g","h","i","j","k","l","m",
           "n","o","p","q","r","s","t","u","v","w","x","y","z">>

Upper == <<"A","B","C","D","E","F","G","H","I","J","K","L","M",
           "N","O","P","Q","R","S","T","U","V","W","X","Y","Z">>

Range(f) == {f[i] : i \in DOMAIN f}

LowerSet == Range(Lower)

UpperSet == Range(Upper)

Letters == LowerSet \cup UpperSet

Digits == {"0","1","2","3","4","5","6","7","8","9"}

\* what String.prototype.trim and the regex class \s remove
WhiteSpace == {" ", "\t", "\n", "\r"}

\* the regex class \w
WordChars == Letters \cup Digits \cup {"_"}

ToLowerChar(c) ==
  IF c \in UpperSet THEN Lower[CHOOSE i \in 1..26 : Upper[i] = c] ELSE c

ToUpperChar(c) ==
  IF c \in LowerSet THEN Upper[CHOOSE i \in 1..26 : Lower[i] = c] ELSE c

SetMin(S) == CHOOSE x \in S : \A y \in S : x <= y

SetMax(S) == CHOOSE x \in S : \A y \in S : x >= y

\* String.prototype.toLowerCase
toLowerCase(s) == [i \in 1..Len(s) |-> ToLowerChar(s[i])]

\* String.prototype.trim
trim(s) ==
  LET keep == {i \in 1..Len(s) : s[i] \notin WhiteSpace}
  IN IF keep = {} THEN <<>> ELSE SubSeq(s, SetMin(keep), SetMax(keep))

\* s.slice(0, n)
slice0(s, n) == IF Len(s) > n THEN SubSeq(s, 1, n) ELSE s

\* whether t occurs in s at position i
OccursAt(s, t, i) ==
  /\ i >= 1
  /\ i + Len(t) - 1 <= Len(s)
  /\ \A j \in 1..Len(t) : s[i + j - 1] = t[j]

\* s.replace(t, u) with a string pattern: the first occurrence only
replaceFirst(s, t, u) ==
  LET at == {i \in 1..Len(s) : OccursAt(s, t, i)}
  IN IF at = {} THEN s
     ELSE LET i == SetMin(at)
          IN SubSeq(s, 1, i - 1) \o u \o SubSeq(s, i + Len(t), Len(s))

RECURSIVE ConcatRange(_, _, _)
\* parts[lo] \o ... \o parts[hi], halving the range
ConcatRange(parts, lo, hi) ==
  IF lo > hi THEN <<>>
  ELSE IF lo = hi THEN parts[lo]
  ELSE ConcatRange(parts, lo, (lo + hi) \div 2)
       \o ConcatRange(parts, (lo + hi) \div 2 + 1, hi)

\* the pieces of a string put together: what + and Array.prototype.join build
Concat(parts) == ConcatRange(parts, 1, Len(parts))

\* parts.join(sep)
Join(parts, sep) ==
  Concat([i \in 1..Len(parts) |-> IF i = 1 THEN parts[i] ELSE sep \o parts[i]])

\* ------------------------------------------------------------ JSON values

NoProps == [k \in {} |-> <<>>]

Undefined == [t |-> "undefined", s |-> <<>>, o |-> NoProps, a |-> <<>>]

Null == [t |-> "null", s |-> <<>>, o |-> NoProps, a |-> <<>>]

Str(s) == [t |-> "string", s |-> s, o |-> NoProps, a |-> <<>>]

\* a number, by its decimal text
Num(s) == [t |-> "number", s |-> s, o |-> NoProps, a |-> <<>>]

Obj(o) == [t |-> "object", s |-> <<>>, o |-> o, a |-> <<>>]

Arr(a) == [t |-> "array", s |-> <<>>, o |-> NoProps, a |-> a]

EmptyString == Str(<<>>)

EmptyObject == Obj(NoProps)

\* v == null
IsNullish(v) == v.t \in {"undefined", "null"}

\* ToBoolean
Truthy(v) ==
  CASE v.t \in {"undefined", "null"} -> FALSE
    [] v.t = "string" -> v.s # <<>>
    [] v.t = "number" -> v.s # <<"0">>
    [] OTHER -> TRUE

\* a || b
Or(a, b) == IF Truthy(a) THEN a ELSE b

\* v.k and v?.k on a value that is not nullish; v?.k on a nullish one
Get(v, k) ==
  IF v.t = "object" /\ k \in DOMAIN v.o THEN v.o[k] ELSE Undefined

Get2(v, k1, k2) == Get(Get(v, k1), k2)

Get3(v, k1, k2, k3) == Get(Get(Get(v, k1), k2), k3)

ObjectObject == <<"[","o","b","j","e","c","t"," ","O","b","j","e","c","t","]">>

RECURSIVE StringThrows(_)
\* String(v) throws a TypeError: an object whose own toString is not callable
\* (any JSON value is not), or an array that holds one
StringThrows(v) ==
  CASE v.t = "object" -> "toString" \in DOMAIN v.o
    [] v.t = "array" -> \E i \in 1..Len(v.a) : StringThrows(v.a[i])
    [] OTHER -> FALSE

RECURSIVE String(_)
\* String(v), where it does not throw
String(v) ==
  CASE v.t = "undefined" -> <<"u","n","d","e","f","i","n","e","d">>
    [] v.t = "null" -> <<"n","u","l","l">>
    [] v.t = "object" -> ObjectObject
    [] v.t = "array" ->
         Join([i \in 1..Len(v.a) |->
                 IF IsNullish(v.a[i]) THEN <<>> ELSE String(v.a[i])], <<",">>)
    [] OTHER -> v.s

\* ------------------------------------------- helpers of the FINAL variant

\* const clean = (v) => (v == null ? '' : String(v).trim())
clean(v) == IF IsNullish(v) THEN <<>> ELSE trim(String(v))

cleanThrows(v) == ~IsNullish(v) /\ StringThrows(v)

S_lead == <<"l","e","a","d">>

\* 'Ariel Property Advisors'
DefaultBrokerage ==
  <<"A","r","i","e","l"," ","P","r","o","p","e","r","t","y"," ",
    "A","d","v","i","s","o","r","s">>

\* the value handed to clean in getCallId (src/index.js 385-386)
callIdSource(p) ==
  Or(Get(p, "call_id"), Or(Get(p, "callId"), Or(Get(p, "session_id"),
  Or(Get(p, "sessionId"), Or(Get2(p, "metadata", "call_id"),
  Or(Get2(p, "metadata", "session_id"),
  Or(Get2(p, "assistant", "callId"), EmptyString)))))))

getCallId(p) == clean(callIdSource(p))

\* the first index of arr whose element satisfies P, 0 when there is none
FindIndex(arr, P(_)) ==
  LET hits == {i \in 1..Len(arr) : P(arr[i])}
  IN IF hits = {} THEN 0 ELSE SetMin(hits)

\* (x?.name || '').toLowerCase() on a truthy name that is no string
NameThrows(x) == Truthy(Get(x, "name")) /\ Get(x, "name").t # "string"

NameIsLead(x) ==
  /\ ~NameThrows(x)
  /\ toLowerCase(Or(Get(x, "name"), EmptyString).s) = S_lead

TagIsLead(x) ==
  \/ Get(x, "type") = Str(S_lead)
  \/ Get(x, "id") = Str(S_lead)

HasLead(x) == Truthy(Get(x, "lead"))

HasDataLead(x) == Truthy(Get2(x, "data", "lead"))

HasData(x) == Truthy(Get(x, "data"))

NameStops(x) == NameThrows(x) \/ NameIsLead(x)

\* the five arr.find calls on one bag: whether the first one throws, and the hit
\* (Undefined when nothing is found)
findHit(arr) ==
  LET i1 == FindIndex(arr, NameStops)
      i2 == FindIndex(arr, TagIsLead)
      i3 == FindIndex(arr, HasLead)
      i4 == FindIndex(arr, HasDataLead)
      i5 == FindIndex(arr, HasData)
  IN IF i1 # 0 /\ NameThrows(arr[i1]) THEN [threw |-> TRUE, val |-> Undefined]
     ELSE [threw |-> FALSE,
           val |-> IF i1 # 0 THEN arr[i1]
                   ELSE IF i2 # 0 THEN arr[i2]
                   ELSE IF i3 # 0 THEN arr[i3]
                   ELSE IF i4 # 0 THEN arr[i4]
                   ELSE IF i5 # 0 THEN arr[i5]
                   ELSE Undefined]

\* return hit.lead || hit.data?.lead || hit.data || hit
hitLead(hit) ==
  Or(Get(hit, "lead"), Or(Get2(hit, "data", "lead"), Or(Get(hit, "data"), hit)))

\* the candidate containers of the FINAL variant, in order, arrays only
bagsOf(p) ==
  SelectSeq(<<Get(p, "structured_outputs"),
              Get2(p, "assistant", "structured_outputs"),
              Get2(p, "data", "structured_outputs"),
              Get(p, "outputs"),
              Get2(p, "assistant", "outputs")>>,
            LAMBDA b : b.t = "array")

\* tryExtractLeadSO: [threw, val], val Null when no lead is found
tryExtractLeadSO(p) ==
  IF Get(p, "lead").t \in {"object", "array"}
  THEN [threw |-> FALSE, val |-> Get(p, "lead")]
  ELSE LET bags == bagsOf(p)
           Scan[i \in 1..(Len(bags) + 1)] ==
             IF i > Len(bags) THEN [threw |-> FALSE, val |-> Null]
             ELSE LET h == findHit(bags[i].a)
                  IN IF h.threw THEN h
                     ELSE IF Truthy(h.val)
                          THEN [threw |-> FALSE, val |-> hitLead(h.val)]
                          ELSE Scan[i + 1]
       IN Scan[1]

\* tryExtractCQ: the eight properties it always sets, undefined ones included
tryExtractCQ(p) ==
  LET caller == Or(Get(p, "caller"), EmptyObject)
      q == Or(Get(p, "qualifications"), EmptyObject)
  IN [name |-> Get(caller, "name"),
      phone |-> Or(Get(caller, "phone"), Get(caller, "number")),
      email |-> Get(caller, "email"),
      role |-> Get(q, "role"),
      inquiry |-> Get(q, "inquiry"),
      market |-> Get(q, "market"),
      dealSize |-> Or(Get(q, "deal_size"), Or(Get(q, "dealSize"), Get(q, "budget"))),
      urgency |-> Or(Get(q, "urgency"), Get(q, "timeline"))]

\* { ...(leadSO || {}), ...cq }: every own property of cq, an undefined one too,
\* replaces the property of the same name of leadSO (the index properties that
\* spreading an array or a string gives are never read and are left out)
spreadMerge(leadSO, cq) ==
  LET base == IF leadSO.t = "object" THEN leadSO.o ELSE NoProps
  IN Obj([k \in (DOMAIN base) \cup (DOMAIN cq) |->
            IF k \in DOMAIN cq THEN cq[k] ELSE base[k]])

\* the nine values normalize hands to clean
normalizeArgs(raw, summary) ==
  [name |-> Get(raw, "name"),
   phone |-> Get(raw, "phone"),
   email |-> Get(raw, "email"),
   role |-> Get(raw, "role"),
   inquiry |-> Get(raw, "inquiry"),
   market |-> Get(raw, "market"),
   dealSize |-> Or(Get(raw, "dealSize"), Or(Get(raw, "deal_size"), Get(raw, "budget"))),
   urgency |-> Or(Get(raw, "urgency"), Get(raw, "timeline")),
   summary |-> Or(summary, Get(raw, "summary"))]

normalize(raw, summary) ==
  LET args == normalizeArgs(raw, summary)
  IN [k \in DOMAIN args |-> clean(args[k])]

normalizeThrows(raw, summary) ==
  LET args == normalizeArgs(raw, summary)
  IN \E k \in DOMAIN args : cleanThrows(args[k])

LeadFields ==
  {"name", "phone", "email", "role", "inquiry", "market", "dealSize", "urgency"}

\* the summary counted among the fields of the gate
hasAnyLeadFieldOrSummary(lead) == \E k \in DOMAIN lead : clean(Str(lead[k])) # <<>>

hasAnyLeadField(lead) == \E k \in LeadFields : clean(Str(lead[k])) # <<>>

\* ------------------------------------------------------------ the Raw cell

\* JSON.stringify of one character of a string
jsonChar(c) ==
  CASE c = "\"" -> <<"\\", "\"">>
    [] c = "\\" -> <<"\\", "\\">>
    [] c = "\n" -> <<"\\", "n">>
    [] c = "\r" -> <<"\\", "r">>
    [] c = "\t" -> <<"\\", "t">>
    [] OTHER -> <<c>>

\* JSON.stringify of a string
jsonString(s) ==
  <<"\"">> \o Concat([i \in 1..Len(s) |-> jsonChar(s[i])]) \o <<"\"">>

\* the property names of a Lead, in the order normalize sets them
LeadOrder ==
  <<"name", "phone", "email", "role", "inquiry", "market", "dealSize",
    "urgency", "summary">>

\* a property name as JSON text
KeyText(k) ==
  CASE k = "name" -> <<"n","a","m","e">>
    [] k = "phone" -> <<"p","h","o","n","e">>
    [] k = "email" -> <<"e","m","a","i","l">>
    [] k = "role" -> <<"r","o","l","e">>
    [] k = "inquiry" -> <<"i","n","q","u","i","r","y">>
    [] k = "market" -> <<"m","a","r","k","e","t">>
    [] k = "dealSize" -> <<"d","e","a","l","S","i","z","e">>
    [] k = "urgency" -> <<"u","r","g","e","n","c","y">>
    [] k = "summary" -> <<"s","u","m","m","a","r","y">>
    [] k = "lead" -> S_lead
    [] k = "callId" -> <<"c","a","l","l","I","d">>

\* JSON.stringify of an object whose properties, in the order keys, are strings
jsonStringProps(keys, val) ==
  <<"{">>
  \o Join([i \in 1..Len(keys) |->
             jsonString(KeyText(keys[i])) \o <<":">> \o jsonString(val[keys[i]])],
          <<",">>)
  \o <<"}">>

\* JSON.stringify({ lead: merged, callId })
jsonLeadAndCallId(merged, callId) ==
  <<"{">> \o jsonString(KeyText("lead")) \o <<":">>
  \o jsonStringProps(LeadOrder, merged) \o <<",">>
  \o jsonString(KeyText("callId")) \o <<":">> \o jsonString(callId) \o <<"}">>

SmallRawLimit == 1000

SmallRawKeep == 997

\* j.length > 1000 ? j.slice(0, 997) + '...' : j
smallRawCut(j) ==
  IF Len(j) > SmallRawLimit
  THEN SubSeq(j, 1, SmallRawKeep) \o <<".", ".", ".">>
  ELSE j

\* smallRaw({ lead: merged, callId }); JSON.stringify cannot throw on strings
smallRaw(merged, callId) == smallRawCut(jsonLeadAndCallId(merged, callId))

\* ------------------------------------------------------------ the row
\* A row is the sequence of the twelve values handed to the append call, each a
\* JSON value: the variants differ in whether a cell is always a string.

\* new Date().toISOString(): the instants the clock may show
Instants ==
  {<<"2","0","2","5","-","0","1","-","0","2","T","0","3",":","0","4",":",
     "0","5",".","6","7","8","Z">>}

\* .replace('T', ' ').replace('Z', ' UTC')
timestampCell(iso) ==
  replaceFirst(replaceFirst(iso, <<"T">>, <<" ">>), <<"Z">>, <<" ","U","T","C">>)

\* the brokerage label of the FINAL variant (src/index.js 456-459)
brokerageOf(p) ==
  LET a == clean(Get3(p, "assistant", "metadata", "brokerageName"))
      b == clean(Get2(p, "assistant", "brokerageName"))
  IN IF a # <<>> THEN a ELSE IF b # <<>> THEN b ELSE DefaultBrokerage

brokerageThrows(p) ==
  \/ cleanThrows(Get3(p, "assistant", "metadata", "brokerageName"))
  \/ /\ clean(Get3(p, "assistant", "metadata", "brokerageName")) = <<>>
     /\ cleanThrows(Get2(p, "assistant", "brokerageName"))

\* the Phone and Email cells in each other's place
buildRowSwapped(iso, brokerage, merged, callId) ==
  <<Str(timestampCell(iso)), Str(brokerage), Str(merged.name),
    Str(merged.email), Str(merged.phone), Str(merged.role),
    Str(merged.inquiry), Str(merged.market), Str(merged.dealSize),
    Str(merged.urgency), Str(merged.summary), Str(smallRaw(merged, callId))>>

\* const row = [ ... ] of the FINAL variant (src/index.js 482-495)
buildRow(iso, brokerage, merged, callId) ==
  <<Str(timestampCell(iso)), Str(brokerage), Str(merged.name),
    Str(merged.phone), Str(merged.email), Str(merged.role),
    Str(merged.inquiry), Str(merged.market), Str(merged.dealSize),
    Str(merged.urgency), Str(merged.summary), Str(smallRaw(merged, callId))>>

\* ------------------------------------------------------------ the handler

EmptyLead == [k \in Range(LeadOrder) |-> <<>>]

\* res.status(200).json(body): the fields a body may carry, "" and <<>> when absent
Response(ok, wrote, skipped, error, callId) ==
  [status |-> 200, ok |-> ok, wrote |-> wrote, skipped |-> skipped,
   error |-> error, callId |-> callId]

SkippedNoFields == "no useful fields yet"

SkippedDuplicate == "already wrote for this call"

\* String(e) of the TypeError of String(v) on an object that cannot be converted
ErrToPrimitive == "TypeError: Cannot convert object to primitive value"

\* String(e) of the TypeError of calling toLowerCase on a value that has none
ErrNotAFunction == "TypeError: toLowerCase is not a function"

\* String(e) of the TypeError of v.toString() on an own toString that is no function
ErrToStringNotAFunction == "TypeError: toString is not a function"

\* the check left out
isDuplicateNever(seen, callId) == FALSE

\* seenCallIds.has(callId), under if (callId)
isDuplicate(seen, callId) == callId # <<>> /\ callId \in seen

\* the set replaced by the last identifier
recordCallIdOnly(seen, callId) == IF callId # <<>> THEN {callId} ELSE seen

\* the identifier not recorded before the await
recordCallIdNot(seen, callId) == seen

\* seenCallIds.add(callId), under if (callId)
recordCallId(seen, callId) == IF callId # <<>> THEN seen \cup {callId} ELSE seen

Threw(err, seen) ==
  [kind |-> "respond", resp |-> Response(FALSE, FALSE, "", err, <<>>),
   callId |-> <<>>, lead |-> EmptyLead, hasLead |-> FALSE, row |-> <<>>,
   seen |-> seen]

\* the identifier of a skipped request recorded all the same
SkippedRecording(why, callId, lead, seen) ==
  [kind |-> "respond", resp |-> Response(TRUE, FALSE, why, "", <<>>),
   callId |-> callId, lead |-> lead, hasLead |-> TRUE, row |-> <<>>,
   seen |-> IF callId # <<>> THEN seen \cup {callId} ELSE seen]

Skipped(why, callId, lead, seen) ==
  [kind |-> "respond", resp |-> Response(TRUE, FALSE, why, "", <<>>),
   callId |-> callId, lead |-> lead, hasLead |-> TRUE, row |-> <<>>,
   seen |-> seen]

\* the append call issued with the insertion left for after the await
AppendingBeforeInsert(row, callId, lead, seen) ==
  [kind |-> "append", resp |-> Response(TRUE, TRUE, "", "", callId),
   callId |-> callId, lead |-> lead, hasLead |-> TRUE, row |-> row,
   seen |-> seen \ {callId}]

Appending(row, callId, lead, seen) ==
  [kind |-> "append", resp |-> Response(TRUE, TRUE, "", "", callId),
   callId |-> callId, lead |-> lead, hasLead |-> TRUE, row |-> row,
   seen |-> seen]

\* { ...(leadSO || {}), ...cq } of the handler
mergedRaw(p) == spreadMerge(tryExtractLeadSO(p).val, tryExtractCQ(p))

\* The handler of the FINAL variant from its first statement to the await, or to
\* the response when it returns before (src/index.js 453-502): what it answers
\* or appends, and seenCallIds afterwards.  resp of an "append" outcome is the
\* answer given once the append has resolved.
finalHandler(body, seen, iso) ==
  LET p == Or(body, EmptyObject)
      callId == getCallId(p)
      raw == mergedRaw(p)
      merged == normalize(raw, Get(p, "summary"))
  IN IF brokerageThrows(p) \/ cleanThrows(callIdSource(p))
       THEN Threw(ErrToPrimitive, seen)
     ELSE IF tryExtractLeadSO(p).threw THEN Threw(ErrNotAFunction, seen)
     ELSE IF normalizeThrows(raw, Get(p, "summary"))
       THEN Threw(ErrToPrimitive, seen)
     ELSE IF ~hasAnyLeadField(merged)
       THEN Skipped(SkippedNoFields, callId, merged, seen)
     ELSE IF isDuplicate(seen, callId)
       THEN Skipped(SkippedDuplicate, callId, merged, seen)
     ELSE Appending(buildRow(iso, brokerageOf(p), merged, callId), callId,
                    merged, recordCallId(seen, callId))

\* ------------------------------- helpers of the regex-fallback variant
\* (src/unnamed/part_000 206-252)

\* const safe = (v) => (v ?? '').toString().trim()
safe(v) == IF IsNullish(v) THEN <<>> ELSE trim(String(v))

\* v.toString() throws where String(v) does: an own toString that is no function
safeThrows(v) == ~IsNullish(v) /\ StringThrows(v)

\* the length of the longest run of characters of class C that starts at s[i]
RunLen(s, i, C) ==
  LET stops == {j \in i..Len(s) : s[j] \notin C}
  IN IF stops = {} THEN Len(s) - i + 1 ELSE SetMin(stops) - i

\* .replace(/\s+/g, ' ')
collapseSpaces(s) ==
  Concat([i \in 1..Len(s) |->
            IF s[i] \notin WhiteSpace THEN <<s[i]>>
            ELSE IF i > 1 /\ s[i - 1] \in WhiteSpace THEN <<>>
            ELSE <<" ">>])

OneLineLimit == 380

\* const oneLine = (v) => safe(v).replace(/\s+/g, ' ').slice(0, 380)
oneLine(v) == slice0(collapseSpaces(safe(v)), OneLineLimit)

\* path.split('.').reduce((a, k) => (a ? a[k] : undefined), obj)
getPath(obj, path) ==
  LET Walk[i \in 0..Len(path)] ==
        IF i = 0 THEN obj
        ELSE IF Truthy(Walk[i - 1]) THEN Get(Walk[i - 1], path[i])
        ELSE Undefined
  IN Walk[Len(path)]

\* whether pickPath returns the value at this path: it is defined and safe(val)
\* neither throws (the catch {} of the loop) nor is ''
pickable(val) ==
  /\ val.t # "undefined"
  /\ ~safeThrows(val)
  /\ safe(val) # <<>>

\* pickPath(obj, paths): the value itself, not its text; '' when none is found
pickPath(obj, paths) ==
  LET hits == {i \in 1..Len(paths) : pickable(getPath(obj, paths[i]))}
  IN IF hits = {} THEN EmptyString ELSE getPath(obj, paths[SetMin(hits)])

PhoneBody == Digits \cup WhiteSpace \cup {"(", ")", ".", "-"}

PhoneMinBody == 8

\* the length of the match of /(\+?\d[\d\s().\-]{8,}\d)/ that starts at s[i],
\* 0 when there is none
phoneMatchLen(s, i) ==
  LET plus == IF i <= Len(s) /\ s[i] = "+" THEN 1 ELSE 0
      d == i + plus
  IN IF d > Len(s) \/ s[d] \notin Digits THEN 0
     ELSE LET m == RunLen(s, d + 1, PhoneBody)
              ends == {j \in (PhoneMinBody + 1)..m : s[d + j] \in Digits}
          IN IF ends = {} THEN 0 ELSE plus + 1 + SetMax(ends)

PhoneMinDigits == 10

DigitCount(s) == Cardinality({i \in 1..Len(s) : s[i] \in Digits})

\* cleanPhone: the first candidate, left to right and not overlapping, that
\* holds at least ten digits
cleanPhoneText(s) ==
  LET Scan[i \in 1..(Len(s) + 1)] ==
        IF i > Len(s) THEN <<>>
        ELSE LET n == phoneMatchLen(s, i)
             IN IF n = 0 THEN Scan[i + 1]
                ELSE LET cand == SubSeq(s, i, i + n - 1)
                     IN IF DigitCount(cand) >= PhoneMinDigits THEN trim(cand)
                        ELSE Scan[i + n]
  IN Scan[1]

cleanPhone(v) == cleanPhoneText(safe(v))

RoleWords ==
  {<<"o","w","n","e","r">>, <<"b","u","y","e","r">>, <<"l","e","n","d","e","r">>,
   <<"g","e","n","e","r","a","l">>, <<"i","n","q","u","i","r","y">>}

\* whether s[i] is at a word boundary on its left (\b before a word character)
BoundaryBefore(s, i) == i = 1 \/ s[i - 1] \notin WordChars

\* whether the text that ends at s[i] is at a word boundary on its right
BoundaryAfter(s, i) == i = Len(s) \/ s[i + 1] \notin WordChars

\* .replace(/\b(owner|buyer|lender|general|inquiry)\b/ig, '')
dropRoleWords(s) ==
  LET low == toLowerCase(s)
      Scan[i \in 1..(Len(s) + 1)] ==
        IF i > Len(s) THEN <<>>
        ELSE LET ws == {w \in RoleWords :
                          /\ OccursAt(low, w, i)
                          /\ BoundaryBefore(s, i)
                          /\ BoundaryAfter(s, i + Len(w) - 1)}
             IN IF ws = {} THEN <<s[i]>> \o Scan[i + 1]
                ELSE Scan[i + Len(CHOOSE w \in ws : TRUE)]
  IN Scan[1]

NameTokens == 3

\* .split(' ').filter(Boolean).slice(0, 3).join(' ')
firstTokens(s) ==
  LET Starts(i) == s[i] # " " /\ (i = 1 \/ s[i - 1] = " ")
      TokenOf(i) == Cardinality({j \in 1..i : Starts(j)})
  IN Concat([i \in 1..Len(s) |->
               IF s[i] = " " \/ TokenOf(i) > NameTokens THEN <<>>
               ELSE IF Starts(i) /\ TokenOf(i) > 1 THEN <<" ", s[i]>>
               ELSE <<s[i]>>])

\* .replace(/\b([a-z])/g, (m) => m.toUpperCase())
titleCase(s) ==
  [i \in 1..Len(s) |->
     IF s[i] \in LowerSet /\ BoundaryBefore(s, i) THEN ToUpperChar(s[i]) ELSE s[i]]

cleanNameText(s) ==
  titleCase(firstTokens(trim(collapseSpaces(dropRoleWords(s)))))

cleanName(v) == cleanNameText(safe(v))

Contains(s, t) == \E i \in 1..Len(s) : OccursAt(s, t, i)

\* the role text kept when it matches no word
normalizeRoleKeep(v) ==
  LET t == toLowerCase(safe(v))
  IN IF Contains(t, <<"o","w","n","e","r">>) THEN <<"o","w","n","e","r">>
     ELSE IF Contains(t, <<"b","u","y","e","r">>) THEN <<"b","u","y","e","r">>
     ELSE IF Contains(t, <<"l","e","n","d","e","r">>) THEN <<"l","e","n","d","e","r">>
     ELSE IF Contains(t, <<"g","e","n","e","r","a","l">>)
             \/ Contains(t, <<"i","n","q","u","i","r","y">>)
       THEN <<"g","e","n","e","r","a","l">>
     ELSE safe(v)

normalizeRole(v) ==
  LET t == toLowerCase(safe(v))
  IN IF Contains(t, <<"o","w","n","e","r">>) THEN <<"o","w","n","e","r">>
     ELSE IF Contains(t, <<"b","u","y","e","r">>) THEN <<"b","u","y","e","r">>
     ELSE IF Contains(t, <<"l","e","n","d","e","r">>) THEN <<"l","e","n","d","e","r">>
     ELSE IF Contains(t, <<"g","e","n","e","r","a","l">>)
             \/ Contains(t, <<"i","n","q","u","i","r","y">>)
       THEN <<"g","e","n","e","r","a","l">>
     ELSE <<>>

LocalChars == Letters \cup Digits \cup {".", "_", "%", "+", "-"}

DomainChars == Letters \cup Digits \cup {".", "-"}

TldMin == 2

\* the length of the match of /[A-Z0-9._%+-]+@[A-Z0-9.-]+\.[A-Z]{2,}/i that
\* starts at s[i], 0 when there is none: the whole run of local characters, the
\* longest domain that a dot and at least two letters follow, and those letters
emailMatchLen(s, i) ==
  LET l == RunLen(s, i, LocalChars)
      at == i + l
      m == RunLen(s, at + 1, DomainChars)
      ds == {d \in 1..(m - 1) :
               /\ s[at + d + 1] = "."
               /\ RunLen(s, at + d + 2, Letters) >= TldMin}
  IN IF l = 0 \/ at > Len(s) THEN 0
     ELSE IF s[at] # "@" \/ ds = {} THEN 0
     ELSE LET d == SetMax(ds)
          IN l + 1 + d + 1 + RunLen(s, at + d + 2, Letters)

\* (text.match(emailRe) || [])[0] || ''
firstEmail(s) ==
  LET starts == {i \in 1..Len(s) : emailMatchLen(s, i) > 0}
  IN IF starts = {} THEN <<>>
     ELSE LET i == SetMin(starts) IN SubSeq(s, i, i + emailMatchLen(s, i) - 1)

NameTriggers ==
  {<<"m","y"," ","n","a","m","e"," ","i","s">>, <<"t","h","i","s"," ","i","s">>}

NameChars == Letters \cup {" ", ".", "'", "-"}

NameMaxTail == 40

\* the group of /(?:my name is|this is)\s+([A-Za-z][A-Za-z .'-]{1,40})/i
\* matched at s[i], <<>> when there is no match there
nameGroupAt(s, i) ==
  LET low == toLowerCase(s)
      ts == {w \in NameTriggers : OccursAt(low, w, i)}
  IN IF ts = {} THEN <<>>
     ELSE LET w == CHOOSE x \in ts : TRUE
              sp == RunLen(s, i + Len(w), WhiteSpace)
              g == i + Len(w) + sp
              tail == RunLen(s, g + 1, NameChars)
          IN IF sp = 0 \/ g > Len(s) THEN <<>>
             ELSE IF s[g] \notin Letters \/ tail = 0 THEN <<>>
             ELSE SubSeq(s, g, g + (IF tail > NameMaxTail THEN NameMaxTail ELSE tail))

\* (text.match(nameRe) || [])[1] || ''
firstNameGroup(s) ==
  LET starts == {i \in 1..Len(s) : nameGroupAt(s, i) # <<>>}
  IN IF starts = {} THEN <<>> ELSE nameGroupAt(s, SetMin(starts))

\* ------------------------------------------------------------ JSON.stringify

\* The own property names of an object in insertion order: the order its a
\* field states.  An object with one property or none needs none; the inputs
\* of the model state the order of every larger object that is serialised.
ownKeys(v) ==
  IF Len(v.a) = Cardinality(DOMAIN v.o) THEN v.a
  ELSE CHOOSE f \in [1..Cardinality(DOMAIN v.o) -> DOMAIN v.o] :
         \A k \in DOMAIN v.o : \E i \in DOMAIN f : f[i] = k

\* a property name as text, for the names the model's inputs serialise; any
\* other name of theirs is one character long
NameText(k) ==
  CASE k \in Range(LeadOrder) \cup {"lead", "callId"} -> KeyText(k)
    [] k = "caller" -> <<"c","a","l","l","e","r">>
    [] k = "qualifications" ->
         <<"q","u","a","l","i","f","i","c","a","t","i","o","n","s">>
    [] k = "event" -> <<"e","v","e","n","t">>
    [] k = "deal_size" -> <<"d","e","a","l","_","s","i","z","e">>
    [] k = "toString" -> <<"t","o","S","t","r","i","n","g">>
    [] k = "outputsKeys" -> <<"o","u","t","p","u","t","s","K","e","y","s">>
    [] OTHER -> <<k>>

\* the properties JSON.stringify writes: those that are not undefined
definedKeys(v) == SelectSeq(ownKeys(v), LAMBDA k : v.o[k].t # "undefined")

RECURSIVE jsonValue(_)
\* JSON.stringify(v) of a value that is not undefined
jsonValue(v) ==
  CASE v.t = "string" -> jsonString(v.s)
    [] v.t = "null" -> <<"n","u","l","l">>
    [] v.t = "array" ->
         <<"[">>
         \o Join([i \in 1..Len(v.a) |->
                    IF v.a[i].t = "undefined" THEN <<"n","u","l","l">>
                    ELSE jsonValue(v.a[i])], <<",">>)
         \o <<"]">>
    [] v.t = "object" ->
         <<"{">>
         \o Join([k \in DOMAIN definedKeys(v) |->
                    jsonString(NameText(definedKeys(v)[k])) \o <<":">>
                    \o jsonValue(v.o[definedKeys(v)[k]])], <<",">>)
         \o <<"}">>
    [] OTHER -> v.s

\* an object with its properties in the order keys
ObjIn(keys, o) == [t |-> "object", s |-> <<>>, o |-> o, a |-> keys]

\* ------------------------------------ the regex-fallback variant's handler
\* (src/unnamed/part_000 255-320)

SoPaths ==
  << <<"structured_output">>, <<"structuredOutput">>,
     <<"result", "structured_output">>, <<"result", "structuredOutput">> >>

BrokeragePaths ==
  << <<"assistant", "metadata", "brokerageName">>, <<"metadata", "brokerageName">>,
     <<"brokerageName">> >>

SummaryPaths ==
  << <<"summary">>, <<"final_summary">>, <<"analysis", "summary">>,
     <<"result", "summary">> >>

TranscriptPaths ==
  << <<"analysis", "transcript">>, <<"transcript">>, <<"result", "transcript">> >>

\* the structured output of the payload: pickPath(...) || {}
structuredOutput(payload) == Or(pickPath(payload, SoPaths), EmptyObject)

\* text || alt, text a string: the string when it is not '', else alt as it is
OrText(text, alt) == IF text # <<>> THEN Str(text) ELSE alt

\* safe(so.k) || pickPath(payload, paths): a string from the structured output,
\* else the value found on the paths as it is, else ''
soOrPath(so, payload, k, paths) ==
  OrText(safe(Get(so, k)), pickPath(payload, paths))

\* the eight fields after the structured and the legacy lookups
\* (src/unnamed/part_000 266-273), so the structured output
lookupsOf(so, payload) ==
  [name |-> soOrPath(so, payload, "name",
                     << <<"caller", "name">>, <<"qualifications", "name">> >>),
   phone |-> soOrPath(so, payload, "phone",
                      << <<"caller", "phone">>, <<"qualifications", "phone">> >>),
   email |-> soOrPath(so, payload, "email",
                      << <<"caller", "email">>, <<"qualifications", "email">> >>),
   role |-> soOrPath(so, payload, "role", << <<"qualifications", "role">> >>),
   inquiry |-> soOrPath(so, payload, "inquiry",
                        << <<"qualifications", "inquiry">> >>),
   market |-> soOrPath(so, payload, "market", << <<"qualifications", "market">> >>),
   dealSize |-> OrText(safe(Get(so, "deal_size")),
                       soOrPath(so, payload, "dealSize",
                                << <<"qualifications", "deal_size">>,
                                   <<"qualifications", "dealSize">> >>)),
   urgency |-> soOrPath(so, payload, "urgency",
                        << <<"qualifications", "urgency">>, <<"timeline">> >>)]

lookups(payload) == lookupsOf(structuredOutput(payload), payload)

\* whether one of the safe(so.k) calls throws, in the order of the statements
soThrows(so) ==
  \/ \E k \in {"name", "phone", "email", "role", "inquiry", "market",
               "deal_size", "urgency"} : safeThrows(Get(so, k))
  \/ safe(Get(so, "deal_size")) = <<>> /\ safeThrows(Get(so, "dealSize"))

lookupsThrow(payload) == soThrows(structuredOutput(payload))

\* `${summary} ${transcript}`
textBlobOf(summary, transcript) == String(summary) \o <<" ">> \o String(transcript)

textBlob(payload) ==
  textBlobOf(pickPath(payload, SummaryPaths), pickPath(payload, TranscriptPaths))

\* if (!email) email = (textBlob.match(emailRe) || [])[0] || ''
emailFallback(email, text) == IF Truthy(email) THEN email ELSE Str(firstEmail(text))

\* if (!phone) phone = cleanPhone(textBlob)
phoneFallback(phone, text) == IF Truthy(phone) THEN phone ELSE Str(cleanPhone(Str(text)))

\* if (!name) name = cleanName((textBlob.match(nameRe) || [])[1] || '')
nameFallback(name, text) ==
  IF Truthy(name) THEN name ELSE Str(cleanName(Str(firstNameGroup(text))))

\* the fallbacks and the final hygiene (src/unnamed/part_000 275-290) on the
\* fields f of the lookups
hygieneOf(f, text) ==
  [name |-> Str(cleanName(nameFallback(f.name, text))),
   phone |-> Str(cleanPhone(phoneFallback(f.phone, text))),
   email |-> emailFallback(f.email, text),
   role |-> Str(normalizeRole(f.role)),
   inquiry |-> f.inquiry,
   market |-> f.market,
   dealSize |-> f.dealSize,
   urgency |-> f.urgency]

\* the eight fields as the row and the Raw cell carry them
hygieneFields(payload) == hygieneOf(lookups(payload), textBlob(payload))

FieldOrder ==
  <<"name", "phone", "email", "role", "inquiry", "market", "dealSize", "urgency">>

\* const row = [ ... ] (src/unnamed/part_000 292-305)
hygieneRowOf(f, brokerage, summary, transcript, iso) ==
  <<Str(timestampCell(iso)),
    Or(brokerage, Str(DefaultBrokerage)),
    f.name, f.phone, f.email, f.role, f.inquiry, f.market, f.dealSize,
    f.urgency,
    Str(oneLine(Or(summary, transcript))),
    Str(oneLine(Str(jsonValue(ObjIn(FieldOrder, f)))))>>

hygieneRow(payload, iso) ==
  hygieneRowOf(hygieneFields(payload), pickPath(payload, BrokeragePaths),
               pickPath(payload, SummaryPaths), pickPath(payload, TranscriptPaths),
               iso)

\* what the handler does with the payload, once req.body || {} is taken
hygieneOutcome(payload, seen, iso) ==
  IF lookupsThrow(payload)
  THEN Threw(ErrToStringNotAFunction, seen)
  ELSE [kind |-> "append", resp |-> Response(TRUE, FALSE, "", "", <<>>),
        callId |-> <<>>, lead |-> EmptyLead, hasLead |-> FALSE,
        row |-> hygieneRow(payload, iso), seen |-> seen]

\* The handler from its first statement to the await.  req.body is never a
\* string under the parsers this variant installs (json, urlencoded), so the
\* JSON.parse branch is not taken.  There is no gate and no de-duplication.
hygieneHandler(body, seen, iso) == hygieneOutcome(Or(body, EmptyObject), seen, iso)

\* ------------------------------------------- the extractLead variant
\* (src/unnamed/part_001 41-131)

\* JSON.parse on the texts the model's inputs hold: null, {} and a run of
\* digits parse; anything else the inputs hold is no JSON text and throws
jsonParses(s) ==
  \/ s = <<"n","u","l","l">>
  \/ s = <<"{", "}">>
  \/ /\ s # <<>>
     /\ \A i \in 1..Len(s) : s[i] \in Digits
     /\ (Len(s) = 1 \/ s[1] # "0")

jsonParse(s) ==
  IF s = <<"n","u","l","l">> THEN Null
  ELSE IF s = <<"{", "}">> THEN EmptyObject
  ELSE Num(s)

\* safeBody(req): a text body is parsed, {} when it does not parse
safeBody(b) ==
  IF b.t = "string" THEN (IF jsonParses(b.s) THEN jsonParse(b.s) ELSE EmptyObject)
  ELSE Or(b, EmptyObject)

\* tryJSON of extractLead
tryJSON(v) ==
  IF v.t = "string" THEN (IF jsonParses(v.s) THEN jsonParse(v.s) ELSE EmptyObject)
  ELSE IF v.t \in {"object", "array"} THEN v
  ELSE EmptyObject

\* a ?? b
Coalesce(a, b) == IF IsNullish(a) THEN b ELSE a

\* extractLead(p), p not nullish
extractLead(p) ==
  LET lead == Or(tryJSON(Get2(p, "outputs", "lead")),
              Or(tryJSON(Get(p, "lead")),
              Or(tryJSON(Get(p, "structuredData")),
              Or(tryJSON(Get2(p, "analysis", "structuredData")), EmptyObject))))
      caller == Or(Get2(p, "outputs", "caller"), Or(Get(p, "caller"), EmptyObject))
      quals == Or(Get2(p, "outputs", "qualifications"),
                  Or(Get(p, "qualifications"), EmptyObject))
  IN [name |-> Coalesce(Get(lead, "name"), Coalesce(Get(caller, "name"), EmptyString)),
      phone |-> Coalesce(Get(lead, "phone"), Coalesce(Get(caller, "phone"), EmptyString)),
      email |-> Coalesce(Get(lead, "email"), Coalesce(Get(caller, "email"), EmptyString)),
      role |-> Coalesce(Get(lead, "role"), Coalesce(Get(quals, "role"), EmptyString)),
      inquiry |-> Coalesce(Get(lead, "inquiry"),
                           Coalesce(Get(quals, "inquiry"), EmptyString)),
      market |-> Coalesce(Get(lead, "market"),
                          Coalesce(Get(quals, "market"), EmptyString)),
      dealSize |-> Coalesce(Get(lead, "dealSize"), Coalesce(Get(lead, "deal_size"),
                            Coalesce(Get(quals, "deal_size"), EmptyString))),
      urgency |-> Coalesce(Get(lead, "urgency"),
                           Coalesce(Get(quals, "urgency"), EmptyString))]

\* the decimal text of a small index
IndexText(n) ==
  LET D == <<"0","1","2","3","4","5","6","7","8","9">>
  IN IF n < 10 THEN Str(<<D[n + 1]>>) ELSE Str(<<D[(n \div 10) + 1], D[(n % 10) + 1]>>)

\* Object.keys(v) of a truthy value, as an array of strings
objectKeys(v) ==
  CASE v.t = "object" ->
         Arr([i \in 1..Cardinality(DOMAIN v.o) |-> Str(NameText(ownKeys(v)[i]))])
    [] v.t = "array" -> Arr([i \in 1..Len(v.a) |-> IndexText(i - 1)])
    [] v.t = "string" -> Arr([i \in 1..Len(v.s) |-> IndexText(i - 1)])
    [] OTHER -> Arr(<<>>)

CompactRawLimit == 900

\* compactRaw(p): JSON.stringify(keep).slice(0, 900); an undefined property is
\* left out of the text
compactRaw(p) ==
  LET keep ==
        [event |-> Or(Get(p, "event"), Or(Get(p, "type"), Undefined)),
         callId |-> Or(Get(p, "callId"), Or(Get(p, "call_id"),
                    Or(Get3(p, "event", "call", "id"), Undefined))),
         outputsKeys |-> IF Truthy(Get(p, "outputs")) THEN objectKeys(Get(p, "outputs"))
                         ELSE Undefined]
  IN slice0(jsonValue(ObjIn(<<"event", "callId", "outputsKeys">>, keep)),
            CompactRawLimit)

SummaryLimit == 300

\* p.summary || p.analysis?.summary || p.outputs?.summary || ''
summarySource(p) ==
  Or(Get(p, "summary"), Or(Get2(p, "analysis", "summary"),
  Or(Get2(p, "outputs", "summary"), EmptyString)))

\* x || ''
OrEmpty(v) == Or(v, EmptyString)

\* const row = [ ... ] (src/unnamed/part_001 103-116)
outputsRow(p, iso) ==
  LET lead == extractLead(p)
  IN <<Str(timestampCell(iso)),
       Or(Get3(p, "assistant", "metadata", "brokerageName"),
          Or(Get2(p, "metadata", "brokerageName"), Str(DefaultBrokerage))),
       OrEmpty(lead.name), OrEmpty(lead.phone), OrEmpty(lead.email),
       OrEmpty(lead.role), OrEmpty(lead.inquiry), OrEmpty(lead.market),
       OrEmpty(lead.dealSize), OrEmpty(lead.urgency),
       Str(slice0(String(summarySource(p)), SummaryLimit)),
       Str(compactRaw(p))>>

\* String(e) of the TypeError of reading a property of null
ErrReadNull == "TypeError: Cannot read properties of null"

\* The handler from its first statement to the await: a body that parses to
\* null makes p.assistant throw; there is no gate and no de-duplication.
outputsHandler(body, seen, iso) ==
  LET p == safeBody(body)
  IN IF p.t = "null" THEN Threw(ErrReadNull, seen)
     ELSE IF StringThrows(summarySource(p)) THEN Threw(ErrToStringNotAFunction, seen)
     ELSE [kind |-> "append", resp |-> Response(TRUE, FALSE, "", "", <<>>),
           callId |-> <<>>, lead |-> EmptyLead, hasLead |-> FALSE,
           row |-> outputsRow(p, iso), seen |-> seen]

\* ------------------------------------------- the full-payload variant
\* (src/unnamed/part_002 42-77)

FullRawLimit == 50000

\* JSON.stringify(p).slice(0, 50000)
fullRaw(p) == slice0(jsonValue(p), FullRawLimit)

\* const row = [ ... ] (src/unnamed/part_002 45-63): the values of the payload
\* as they are, '' for a falsy one
payloadRow(p, iso) ==
  LET meta == Or(Get2(p, "assistant", "metadata"), EmptyObject)
      caller == Or(Get(p, "caller"), EmptyObject)
      quals == Or(Get(p, "qualifications"), EmptyObject)
      summary == Or(Get(p, "summary"), Or(Get(p, "final_summary"), EmptyString))
  IN <<Str(timestampCell(iso)),
       OrEmpty(Get(meta, "brokerageName")),
       OrEmpty(Get(caller, "name")), OrEmpty(Get(caller, "phone")),
       OrEmpty(Get(caller, "email")),
       OrEmpty(Get(quals, "role")), OrEmpty(Get(quals, "inquiry")),
       OrEmpty(Get(quals, "market")), OrEmpty(Get(quals, "deal_size")),
       OrEmpty(Get(quals, "urgency")),
       OrEmpty(summary),
       Str(fullRaw(p))>>

\* The handler from its first statement to the await: nothing in it throws;
\* there is no gate and no de-duplication.
payloadHandler(body, seen, iso) ==
  [kind |-> "append", resp |-> Response(TRUE, FALSE, "", "", <<>>),
   callId |-> <<>>, lead |-> EmptyLead, hasLead |-> FALSE,
   row |-> payloadRow(Or(body, EmptyObject), iso), seen |-> seen]

\* ------------------------------------------------------------ the process

VARIABLES
  variant,      \* which index.js runs
  env,          \* the environment variables the startup code reads
  proc,         \* "starting", "listening" or "exited"
  seenCallIds,  \* const seenCallIds = new Set()
  sheet,        \* the rows of the spreadsheet, in the order appended
  req           \* the requests: where each is, and its handler's locals

vars == <<variant, env, proc, seenCallIds, sheet, req>>

Variants == {"FINAL", "regexFallback", "extractLead", "fullPayload"}

\* how many requests a run sends
NumReqs == 2

Reqs == 1..NumReqs

\* The environment: the spreadsheet id, the inline credentials (FINAL reads
\* GOOGLE_CREDENTIALS, the others GCP_SERVICE_ACCOUNT_JSON) and the key file
\* path (GOOGLE_APPLICATION_CREDENTIALS, GCP_SERVICE_ACCOUNT_FILE), '' when unset
Envs ==
  [sheetId : {<<>>, <<"s">>},
   inlineJson : {<<>>, <<"{", "}">>, <<" ", "{">>, <<"x">>},
   keyFile : {<<>>, <<"/", "k">>}]

\* KEY_JSON.trim().startsWith('{')
startsWithBrace(s) == trim(s) # <<>> /\ trim(s)[1] = "{"

\* whether the try block that builds auth throws
authThrows(v, e) ==
  IF v = "FINAL"
  THEN e.inlineJson # <<>> /\ ~jsonParses(e.inlineJson)
  ELSE IF startsWithBrace(e.inlineJson) THEN ~jsonParses(e.inlineJson)
  ELSE e.keyFile = <<>>

\* the check of the spreadsheet id left out
startupExitsUnchecked(v, e) == authThrows(v, e)

\* whether the startup code calls process.exit(1) before app.listen
startupExits(v, e) == e.sheetId = <<>> \/ authThrows(v, e)

\* A request: where it is (pc), its parsed body, the requests already answered
\* when it arrived (pred), the handler's locals (callId, lead and whether
\* normalize returned it, row), the response the handler sends once the append
\* call resolves, the append calls it has issued, what the append call threw
\* ("" when it did not) and the responses sent.
IdleReq ==
  [pc |-> "idle", body |-> Undefined, pred |-> {}, callId |-> <<>>,
   lead |-> EmptyLead, hasLead |-> FALSE, row |-> <<>>,
   onResolve |-> Response(FALSE, FALSE, "", "", <<>>), calls |-> 0,
   failure |-> "", resps |-> <<>>]

Init ==
  /\ variant \in Variants
  /\ env \in Envs
  /\ proc = "starting"
  /\ seenCallIds = {}
  /\ sheet = <<>>
  /\ req = [r \in Reqs |-> IdleReq]

\* the module's top-level code up to app.listen
Startup ==
  /\ proc = "starting"
  /\ proc' = IF startupExits(variant, env) THEN "exited" ELSE "listening"
  /\ UNCHANGED <<variant, env, seenCallIds, sheet, req>>

\* the requests already answered
Answered == {q \in Reqs : req[q].pc = "done"}

\* a POST /vapi/webhook arrives with parsed body b; requests are numbered in
\* the order they arrive
Arrive(r, b) ==
  /\ proc = "listening"
  /\ req[r].pc = "idle"
  /\ IF r = 1 THEN TRUE ELSE req[r - 1].pc # "idle"
  /\ req' = [req EXCEPT ![r] = [@ EXCEPT !.pc = "arrived", !.body = b,
                                          !.pred = Answered]]
  /\ UNCHANGED <<variant, env, proc, seenCallIds, sheet>>

\* What Express answers when bodyParser.json hands it an error (a body that is
\* no JSON text, or one over the limit): the error's status and no JSON body;
\* no error-handling middleware is installed and the route handler is not run.
parserErrorResponse(status) ==
  [status |-> status, ok |-> FALSE, wrote |-> FALSE, skipped |-> "",
   error |-> "", callId |-> <<>>]

\* the statuses of body-parser's errors: entity.parse.failed, entity.too.large
ParserStatuses == {400, 413}

\* a POST /vapi/webhook arrives whose body the JSON parser rejects
ParseReject(r, status) ==
  /\ proc = "listening"
  /\ req[r].pc = "idle"
  /\ IF r = 1 THEN TRUE ELSE req[r - 1].pc # "idle"
  /\ req' = [req EXCEPT ![r] = [@ EXCEPT !.pc = "done", !.pred = Answered,
                                          !.resps = <<parserErrorResponse(status)>>]]
  /\ UNCHANGED <<variant, env, proc, seenCallIds, sheet>>

\* the answer sent before the append call is awaited
RunAnswerFirst(r, out) ==
  /\ seenCallIds' = out.seen
  /\ req' = [req EXCEPT ![r] =
       [@ EXCEPT !.pc = IF out.kind = "append" THEN "awaiting" ELSE "done",
                 !.callId = out.callId,
                 !.lead = out.lead,
                 !.hasLead = out.hasLead,
                 !.row = out.row,
                 !.onResolve = out.resp,
                 !.calls = IF out.kind = "append" THEN @ + 1 ELSE @,
                 !.resps = Append(@, out.resp)]]
  /\ UNCHANGED <<variant, env, proc, sheet>>

\* the handler runs from its first statement to its first await or its return
Run(r, out) ==
  /\ seenCallIds' = out.seen
  /\ req' = [req EXCEPT ![r] =
       [@ EXCEPT !.pc = IF out.kind = "append" THEN "awaiting" ELSE "done",
                 !.callId = out.callId,
                 !.lead = out.lead,
                 !.hasLead = out.hasLead,
                 !.row = out.row,
                 !.onResolve = out.resp,
                 !.calls = IF out.kind = "append" THEN @ + 1 ELSE @,
                 !.resps = IF out.kind = "append" THEN @ ELSE Append(@, out.resp)]]
  /\ UNCHANGED <<variant, env, proc, sheet>>

HandleFinal(r, iso) ==
  /\ variant = "FINAL"
  /\ req[r].pc = "arrived"
  /\ Run(r, finalHandler(req[r].body, seenCallIds, iso))

HandleRegexFallback(r, iso) ==
  /\ variant = "regexFallback"
  /\ req[r].pc = "arrived"
  /\ Run(r, hygieneHandler(req[r].body, seenCallIds, iso))

HandleExtractLead(r, iso) ==
  /\ variant = "extractLead"
  /\ req[r].pc = "arrived"
  /\ Run(r, outputsHandler(req[r].body, seenCallIds, iso))

HandleFullPayload(r, iso) ==
  /\ variant = "fullPayload"
  /\ req[r].pc = "arrived"
  /\ Run(r, payloadHandler(req[r].body, seenCallIds, iso))

\* what the rejected append call throws at the await
AppendErrors == {"Error: The caller does not have permission"}

\* the rows of the sheet after the append call has succeeded
sheetAfterAppend(sh, r, row) == Append(sh, [by |-> r, values |-> row])

\* the failure handed on to Express, which answers 500
catchResponsePassOn(err) == parserErrorResponse(500)

\* what the catch block does with the request: the response it sends
catchResponse(err) == Response(FALSE, FALSE, "", err, <<>>)

\* the append call resolves: the row is in the sheet, the handler answers
AppendResolve(r) ==
  /\ req[r].pc = "awaiting"
  /\ sheet' = sheetAfterAppend(sheet, r, req[r].row)
  /\ req' = [req EXCEPT ![r] = [@ EXCEPT !.pc = "done",
                                          !.resps = Append(@, req[r].onResolve)]]
  /\ UNCHANGED <<variant, env, proc, seenCallIds>>

\* the catch block takes the identifier out of the set again
AppendRejectForget(r, err) ==
  /\ req[r].pc = "awaiting"
  /\ req' = [req EXCEPT ![r] = [@ EXCEPT !.pc = "done",
                                          !.failure = err,
                                          !.resps = Append(@, catchResponse(err))]]
  /\ seenCallIds' = seenCallIds \ {req[r].callId}
  /\ UNCHANGED <<variant, env, proc, sheet>>

\* the append call rejects: no row, the catch block answers
AppendReject(r, err) ==
  /\ req[r].pc = "awaiting"
  /\ req' = [req EXCEPT ![r] = [@ EXCEPT !.pc = "done",
                                          !.failure = err,
                                          !.resps = Append(@, catchResponse(err))]]
  /\ UNCHANGED <<variant, env, proc, seenCallIds, sheet>>

\* ------------------------------------------------------------ the inputs

\* an object of the properties of f that are not undefined
ObjOf(f) == Obj([k \in {x \in DOMAIN f : f[x].t # "undefined"} |-> f[k]])

\* the same, no object at all when every property is undefined
ObjOrAbsent(f) ==
  IF \A k \in DOMAIN f : f[k].t = "undefined" THEN Undefined ELSE ObjOf(f)

\* an object whose String(v) throws
Unprintable == Obj([toString |-> Num(<<"1">>)])

NamedA == Obj([caller |-> Obj([name |-> Str(<<"A">>)])])

\* The bodies the requests of a run carry under the FINAL variant: no call id,
\* the same call id under two of its names (one padded) with different caller
\* data, another call id, a call id without lead fields, and a body that makes
\* the handler throw.
FinalBodies ==
  {NamedA,
   Obj([call_id |-> Str(<<"a">>), caller |-> Obj([name |-> Str(<<"A">>)])]),
   Obj([callId |-> Str(<<" ", "a", " ">>), caller |-> Obj([name |-> Str(<<"B">>)])]),
   Obj([call_id |-> Str(<<"b">>), caller |-> Obj([name |-> Str(<<"A">>)])]),
   Obj([call_id |-> Str(<<"a">>)]),
   Obj([call_id |-> Str(<<"a">>), caller |-> Obj([name |-> Unprintable])])}

\* under the regex-fallback variant: the last one makes the handler throw
HygieneBodies ==
  {EmptyObject, NamedA, Obj([structured_output |-> Obj([name |-> Unprintable])])}

\* under the extractLead variant, which also installs a text parser: a text
\* that parses to null makes the handler throw, one that does not parse is {}
OutputsBodies ==
  {EmptyObject, NamedA, Str(<<"n","u","l","l">>), Str(<<"x">>)}

\* a text longer than the longest Raw cell of the variants that cut it short
LongText == [i \in 1..(SmallRawLimit + 1) |-> "x"]

\* a caller with a long name
LongNamed == Obj([caller |-> Obj([name |-> Str(LongText)])])

\* NamedA with an event beside the caller
NamedAEvent ==
  ObjIn(<<"caller", "event">>,
        [caller |-> Obj([name |-> Str(<<"A">>)]), event |-> Str(<<"e">>)])

\* under the full-payload variant: the same caller with and without another
\* property, and a long name
PayloadBodies == {NamedA, NamedAEvent, LongNamed}

BodiesOf(v) ==
  CASE v = "FINAL" -> FinalBodies
    [] v = "regexFallback" -> HygieneBodies
    [] v = "extractLead" -> OutputsBodies
    [] v = "fullPayload" -> PayloadBodies

\* ------------------------------------------- the inputs of the extraction

\* the place of each Lead field in a body of the README's shape
FieldPath ==
  [name |-> <<"caller", "name">>, phone |-> <<"caller", "phone">>,
   email |-> <<"caller", "email">>, role |-> <<"qualifications", "role">>,
   inquiry |-> <<"qualifications", "inquiry">>,
   market |-> <<"qualifications", "market">>,
   dealSize |-> <<"qualifications", "deal_size">>,
   urgency |-> <<"qualifications", "urgency">>, summary |-> <<"summary">>]

\* the value of k in a body that holds vals[k] for the fields of present only
ValueIn(present, vals, k) == IF k \in present THEN vals[k] ELSE Undefined

\* the body of the README's shape (caller, qualifications, summary) that holds
\* vals[k] at the place of each field k of present, and nothing else
ShapedBody(present, vals) ==
  ObjOf([caller |->
           ObjOrAbsent([name |-> ValueIn(present, vals, "name"),
                        phone |-> ValueIn(present, vals, "phone"),
                        email |-> ValueIn(present, vals, "email")]),
         qualifications |->
           ObjOrAbsent([role |-> ValueIn(present, vals, "role"),
                        inquiry |-> ValueIn(present, vals, "inquiry"),
                        market |-> ValueIn(present, vals, "market"),
                        deal_size |-> ValueIn(present, vals, "dealSize"),
                        urgency |-> ValueIn(present, vals, "urgency")]),
         summary |-> ValueIn(present, vals, "summary")])

\* the values of the README's body example (src/unnamed/part_003 47-52)
ReadmeValues ==
  [name |-> Str(<<"J","o","h","n"," ","D","o","e">>),
   phone |-> Str(<<"+","1","-","5","5","5","-","0","1","0","0">>),
   email |-> Str(<<"j","o","h","n","@","e","x","a","m","p","l","e",".","c","o",
                "m">>),
   role |-> Str(<<"b","u","y","e","r">>),
   inquiry |-> Str(<<"2"," ","u","n","i","t","s">>),
   market |-> Str(<<"N","Y","C">>),
   dealSize |-> Str(<<"$","3","M">>),
   urgency |-> Str(<<"2"," ","w","e","e","k","s">>),
   summary |-> Str(<<"B","u","y","e","r"," ","i","n","t","e","r","e","s","t","e","d",
                " ","i","n"," ","a"," ","B","r","o","o","k","l","y","n"," ","p",
                "r","o","p","e","r","t","y",".">>)]

\* values that trimming changes, one of them to nothing
PaddedValues ==
  [name |-> Str(<<" ","J","a","n","e"," "," ","R","o","e"," ">>),
   phone |-> Str(<<"\t","5","5","5"," ","0","1","0"," ","0","1","9","9">>),
   email |-> Str(<<"j","r","@","e","x",".","i","o"," ">>),
   role |-> Str(<<" ","O","w","n","e","r">>),
   inquiry |-> Str(<<" "," "," ">>),
   market |-> Str(<<" ","L","A","\n">>),
   dealSize |-> Str(<<" ","5"," ","M"," ">>),
   urgency |-> Str(<<"n","o","w"," ">>),
   summary |-> Str(<<" "," ","A"," ","\"","q","u","o","t","e","d","\""," ","n","o",
                "t","e","\\"," ","\n">>)]

\* the README's body example as it stands, brokerage included
ReadmeBody ==
  Obj([assistant |-> Obj([metadata |-> Obj([brokerageName |-> Str(DefaultBrokerage)])]),
       caller |-> Obj([name |-> ReadmeValues.name, phone |-> ReadmeValues.phone,
                       email |-> ReadmeValues.email]),
       qualifications |-> Obj([role |-> ReadmeValues.role,
                               market |-> ReadmeValues.market,
                               deal_size |-> ReadmeValues.dealSize,
                               urgency |-> ReadmeValues.urgency]),
       summary |-> ReadmeValues.summary])

\* every body of the README's shape over the two sets of values
ShapedBodies ==
  {ShapedBody(present, vals) :
     present \in SUBSET Range(LeadOrder), vals \in {ReadmeValues, PaddedValues}}

\* values of the other types a JSON body can hold, and blank strings
OddValues ==
  {Str(<<>>), Str(<<" ", "\t">>), Num(<<"0">>), Num(<<"5">>), Null, EmptyObject,
   Arr(<<Str(<<"a">>), Null, Num(<<"1">>)>>), Arr(<<>>), Unprintable,
   Arr(<<Unprintable>>)}

\* a body of the README's shape with one field, of any type
TypedBodies ==
  {ShapedBody({k}, [x \in {k} |-> v]) : k \in Range(LeadOrder), v \in OddValues}

\* a market of two words with two spaces between them
SpacedBody ==
  ShapedBody({"market"}, [x \in {"market"} |-> Str(<<"N","e","w"," "," ","Y","o","r","k">>)])

\* the body with property k set to v
With(body, k, v) == Obj((k :> v) @@ body.o)

\* 'SO': a value of the structured-output lead
SoValue == Str(<<"S", "O">>)

\* the caller and qualifications values set against it: another text, a blank
CqValues == {Str(<<"C", "Q">>), Str(<<" ">>)}

\* A lead object on the payload with one field, beside a caller/qualifications
\* counterpart of the same field or none; dealSize also under its other names
PrecedenceBodiesOf(k) ==
  {With(ShapedBody(present, [x \in {k} |-> cq]), "lead", Obj((w :> SoValue))) :
     present \in {{}, {k}}, cq \in CqValues,
     w \in {k, "deal_size", "timeline", "summary"}}

PrecedenceBodies == UNION {PrecedenceBodiesOf(k) : k \in LeadFields}

\* the fields of CqValues' first text, all present
AllCq == ShapedBody(LeadFields, [k \in LeadFields |-> Str(<<"C", "Q">>)])

\* the containers tryExtractLeadSO searches, with a lead found by each of the
\* five tests, one item whose name is no string, and containers to pass over
BagBodies ==
  {Obj([structured_outputs |->
          Arr(<<Obj([name |-> Str(<<"L","e","a","d">>),
                     lead |-> Obj([name |-> SoValue])])>>)]),
   Obj([assistant |-> Obj([structured_outputs |->
          Arr(<<Obj([type |-> Str(S_lead),
                     data |-> Obj([lead |-> Obj([phone |-> SoValue])])])>>)])]),
   Obj([data |-> Obj([structured_outputs |->
          Arr(<<Obj([id |-> Str(S_lead), data |-> Obj([email |-> SoValue])])>>)])]),
   Obj([outputs |->
          Arr(<<Obj([x |-> Num(<<"1">>)]), Obj([lead |-> Obj([role |-> SoValue])])>>)]),
   Obj([assistant |-> Obj([outputs |->
          Arr(<<Obj([data |-> Obj([market |-> SoValue])])>>)])]),
   Obj([structured_outputs |-> Arr(<<Obj([name |-> Num(<<"5">>)])>>)]),
   Obj([structured_outputs |->
          Arr(<<Obj([id |-> Str(S_lead), urgency |-> SoValue])>>)]),
   Obj([structured_outputs |-> Arr(<<>>),
        outputs |-> Arr(<<Obj([lead |-> Obj([inquiry |-> SoValue])])>>)]),
   Obj([structured_outputs |-> Obj([lead |-> Obj([name |-> SoValue])]),
        outputs |-> Arr(<<Obj([data |-> Obj([lead |-> Obj([dealSize |-> SoValue])])])>>)])}

\* the same beside caller and qualifications
BagAndCqBodies ==
  {With(With(b, "caller", Get(AllCq, "caller")),
        "qualifications", Get(AllCq, "qualifications")) : b \in BagBodies}

\* bodies with a call identifier, and with a brokerage label
LabelledBodies ==
  {With(ReadmeBody, "call_id", Str(<<"c", "1">>)),
   With(NamedA, "metadata", Obj([session_id |-> Num(<<"7">>)])),
   With(NamedA, "assistant", Obj([brokerageName |-> Str(<<" ", "K", "W", " ">>)])),
   With(NamedA, "assistant", Obj([metadata |-> Obj([brokerageName |-> Unprintable])]))}

\* what the extraction of the FINAL variant is run on
FinalExtractBodies ==
  {EmptyObject, ReadmeBody, SpacedBody} \cup ShapedBodies \cup TypedBodies
  \cup PrecedenceBodies \cup BagBodies \cup BagAndCqBodies \cup LabelledBodies

\* The regex-fallback variant: an email in the structured output, in caller, in
\* qualifications (a text, a blank, a number, a value that cannot be printed)
\* or in none, and free text with addresses or without
SoEmails == {Undefined, Str(<<" ","s","@","o",".","i","o"," ">>), Str(<<" ">>)}

CallerEmails ==
  {Undefined, Str(<<"c","@","a",".","i","o">>), Num(<<"0">>), Num(<<"5">>), Unprintable}

QualEmails == {Undefined, Str(<<"q","@","u",".","i","o">>)}

Summaries ==
  {Undefined,
   Str(<<"h","i"," ","a",".","b","@","e","x",".","c","o",".","u","k"," ",
                "o","k">>),
   Str(<<"x","@","@","y","@","z",".","i","o",","," ","w","@","v",".","u",
                "k">>),
   Str(<<"n","o"," ","m","a","i","l">>),
   Str(<<"a","@","b",".","c">>),
   Arr(<<Str(<<"k","@","l",".","m","n">>)>>)}

Transcripts ==
  {Undefined, Str(<<"t","@","r",".","i","o">>), Str(<<"c","a","l","l"," ","m","e">>)}

EmailBody(soEmail, callerEmail, qualEmail, summary, transcript) ==
  ObjOf([structured_output |-> ObjOrAbsent([email |-> soEmail]),
         caller |-> ObjOrAbsent([email |-> callerEmail]),
         qualifications |-> ObjOrAbsent([email |-> qualEmail]),
         summary |-> summary,
         transcript |-> transcript])

EmailBodies ==
  {EmailBody(a, b, c, d, e) :
     a \in SoEmails, b \in CallerEmails, c \in QualEmails, d \in Summaries,
     e \in Transcripts}

\* free text at the other places the variant reads it from, and text that holds
\* a name and a phone number
TextBodies ==
  {Obj([final_summary |-> Str(<<"w","r","i","t","e"," ","f","@","g",".","h","i">>)]),
   Obj([analysis |-> Obj([summary |-> Str(<<"s","e","e"," "," ","y","o","u">>),
                          transcript |-> Str(<<"I"," ","a","m"," ","a","t"," ","m","_","n","+","1","@","o","-",
                "p",".","q","r","s",".">>)])]),
   Obj([result |-> Obj([transcript |-> Str(<<"T","h","i","s"," ","i","s"," "," ","a","n","n","-","l","e","e",
                " ","o","'","n","e","i","l"," ","j","r"," ","b","u","y","e","r">>),
                        structuredOutput |-> Obj([role |-> Str(<<"P","r","o","p","e","r","t","y"," ","O","W","N","E","R">>)])])]),
   Obj([summary |-> Str(<<"m","y"," ","n","a","m","e"," ","i","s"," ","b","o","b",","," ",
                "+","1"," ","(","5","5","5",")"," ","0","1","0","-","0","1","9",
                "9"," ","o","r"," ","$","3","-","5","M">>)]),
   Obj([transcript |-> Str(<<"t","e","l"," ","5","5","5",".","0","1","0",".","0","1","9",
                "9">>),
        caller |-> Obj([name |-> Str(<<"t","h","e"," ","g","e","n","e","r","a","l"," "," ","m","a","n",
                "a","g","e","r"," ","a","l">>),
                        phone |-> Str(<<"1","2","3","4","5">>)])])}

\* role texts: a word of the vocabulary inside other text and in other case,
\* two words of it, and text that holds none
RoleTexts ==
  {<<"G","e","n","e","r","a","l"," ","q","u","e","s","t","i","o","n">>,
   <<"a","n"," ","I","N","Q","U","I","R","Y">>,
   <<"b","u","y","e","r","'","s"," ","L","e","n","d","e","r">>,
   <<"S","e","l","l","e","r">>,
   <<"c","o","-","o","w","n","e","r"," ","/"," ","b","u","y","e","r">>}

RoleBodies == {ShapedBody({"role"}, [x \in {"role"} |-> Str(t)]) : t \in RoleTexts}

\* what the extraction of the regex-fallback variant is run on
HygieneExtractBodies ==
  {EmptyObject, ReadmeBody, SpacedBody} \cup TypedBodies \cup EmailBodies \cup TextBodies
  \cup RoleBodies

\* The extractLead variant: outputs.lead with one field of any type, lead given
\* as JSON text, and the older shapes
OutputsLeadBodies ==
  {Obj([outputs |-> Obj([lead |-> Obj((k :> v))])]) :
     k \in LeadFields \cup {"deal_size"}, v \in OddValues \cup {Str(<<" ", "x", " ">>)}}

JsonTextBodies ==
  {Obj([outputs |-> Obj([lead |-> Str(<<"n","u","l","l">>)]),
        lead |-> Obj([name |-> SoValue])]),
   Obj([outputs |-> Obj([lead |-> Str(<<"{","}">>), caller |-> Obj([name |-> SoValue]),
                         summary |-> Num(<<"4","2">>)])]),
   Obj([lead |-> Obj([name |-> SoValue]), event |-> Str(<<"e">>),
        call_id |-> Str(<<"c","1">>)]),
   Obj([outputs |-> Arr(<<Str(<<"a">>)>>), summary |-> Unprintable]),
   Str(<<"n","u","l","l">>), Str(<<"x">>), Str(<<"7">>)}

\* what the extraction of the extractLead variant is run on
OutputsExtractBodies ==
  {EmptyObject, ReadmeBody} \cup TypedBodies \cup OutputsLeadBodies
  \cup JsonTextBodies

\* a body whose Raw cell is cut short: the long text at a place the variant
\* builds the cell from
LongBody(v) ==
  CASE v = "FINAL" -> LongNamed
    [] v = "regexFallback" -> Obj([qualifications |-> Obj([inquiry |-> Str(LongText)])])
    [] v = "extractLead" ->
         ObjIn(<<"caller", "event">>,
               [caller |-> Obj([name |-> Str(<<"A">>)]), event |-> Str(LongText)])
    [] v = "fullPayload" -> LongNamed

\* what the row of the full-payload variant is built from
PayloadExtractBodies == {EmptyObject, NamedAEvent} \cup TypedBodies

ExtractBodies(v) ==
  {LongBody(v)} \cup
  CASE v = "FINAL" -> FinalExtractBodies
    [] v = "regexFallback" -> HygieneExtractBodies
    [] v = "extractLead" -> OutputsExtractBodies
    [] v = "fullPayload" -> PayloadExtractBodies

Next ==
  \/ Startup
  \/ \E r \in Reqs : \E b \in BodiesOf(variant) : Arrive(r, b)
  \/ \E r \in Reqs : \E status \in ParserStatuses : ParseReject(r, status)
  \/ \E r \in Reqs : \E iso \in Instants : HandleFinal(r, iso)
  \/ \E r \in Reqs : \E iso \in Instants : HandleRegexFallback(r, iso)
  \/ \E r \in Reqs : \E iso \in Instants : HandleExtractLead(r, iso)
  \/ \E r \in Reqs : \E iso \in Instants : HandleFullPayload(r, iso)
  \/ \E r \in Reqs : AppendResolve(r)
  \/ \E r \in Reqs : \E err \in AppendErrors : AppendReject(r, err)

Spec == Init /\ [][Next]_vars

\* The event loop runs a handler that is ready, and the append call settles
\* (the assumption of the claims on responses: it resolves or rejects).
Settle(r) == AppendResolve(r) \/ \E err \in AppendErrors : AppendReject(r, err)

Handle(r) ==
  \E iso \in Instants :
    \/ HandleFinal(r, iso)
    \/ HandleRegexFallback(r, iso)
    \/ HandleExtractLead(r, iso)
    \/ HandleFullPayload(r, iso)

FairSpec ==
  /\ Spec
  /\ \A r \in Reqs : WF_vars(Handle(r)) /\ WF_vars(Settle(r))

\* ------------------------------------------- the extraction, payload by payload
\* The server listens and one request has arrived, with a body of the richer
\* set ExtractBodies; the handler runs on it and the append call settles.

\* an environment every variant starts under
ListeningEnv == [sheetId |-> <<"s">>, inlineJson |-> <<"{", "}">>, keyFile |-> <<>>]

ArrivedReq(b) == [IdleReq EXCEPT !.pc = "arrived", !.body = b]

InitExtract ==
  /\ variant \in Variants
  /\ env = ListeningEnv
  /\ proc = "listening"
  /\ seenCallIds = {}
  /\ sheet = <<>>
  /\ \E b \in ExtractBodies(variant) :
       req = [r \in Reqs |-> IF r = 1 THEN ArrivedReq(b) ELSE IdleReq]

NextExtract ==
  \/ \E iso \in Instants : HandleFinal(1, iso)
  \/ \E iso \in Instants : HandleRegexFallback(1, iso)
  \/ \E iso \in Instants : HandleExtractLead(1, iso)
  \/ \E iso \in Instants : HandleFullPayload(1, iso)
  \/ AppendResolve(1)
  \/ \E err \in AppendErrors : AppendReject(1, err)

SpecExtract == InitExtract /\ [][NextExtract]_vars

\* ------------------------------------------------------------ the claims

\* the body the handler works on: req.body || {}
PayloadOf(r) == Or(req[r].body, EmptyObject)

\* the call identifier the body of request r carries, '' when it carries none
\* (or a value that cannot be read as text)
CarriedCallId(r) ==
  IF cleanThrows(callIdSource(PayloadOf(r))) THEN <<>> ELSE getCallId(PayloadOf(r))

\* how many rows of the sheet request r appended
RowsBy(r) == Cardinality({i \in DOMAIN sheet : sheet[i].by = r})

\* the handler of r normalized a Lead and it has a field other than summary
PassedGate(r) ==
  req[r].hasLead /\ \E k \in LeadFields : req[r].lead[k] # <<>>

\* r1 and r2 are the two requests that carry one non-empty call identifier, r2
\* arrived after r1 was answered, and r2 has been answered too
Sequential(r1, r2) ==
  /\ variant = "FINAL"
  /\ r1 # r2
  /\ r1 \in req[r2].pred
  /\ req[r2].pc = "done"
  /\ CarriedCallId(r1) # <<>>
  /\ CarriedCallId(r2) = CarriedCallId(r1)
  /\ \A q \in Reqs \ {r1, r2} : CarriedCallId(q) # CarriedCallId(r1)

\* the answer { ok: true, skipped: why }
SkipAnswer(why) == <<Response(TRUE, FALSE, why, "", <<>>)>>

\* C1 as the spec states it: two requests handled one after the other with the
\* same non-empty call identifier append exactly one row, the first writes it
\* and the second is answered { ok: true, skipped } without an append call.
C1_ExactlyOneRow ==
  \A r1, r2 \in Reqs :
    Sequential(r1, r2) =>
      /\ RowsBy(r1) = 1
      /\ RowsBy(r2) = 0
      /\ req[r2].calls = 0
      /\ req[r2].resps \in {SkipAnswer(SkippedDuplicate), SkipAnswer(SkippedNoFields)}

\* C1, amended: two requests handled one after the other with the same
\* non-empty call identifier issue at most one append call and append at most
\* one row.  When the first passes the gate (its Lead has a field other than
\* summary) it issues that call, the second issues none and, its handler not
\* throwing, is answered { ok: true, skipped }, whatever its caller data; the
\* sheet then holds one row for the identifier if the call succeeded and none
\* if it failed.
C1_AtMostOneRow ==
  \A r1, r2 \in Reqs :
    Sequential(r1, r2) =>
      /\ req[r1].calls + req[r2].calls <= 1
      /\ RowsBy(r1) + RowsBy(r2) <= 1
      /\ PassedGate(r1) =>
           /\ req[r1].calls = 1
           /\ req[r2].calls = 0
           /\ req[r2].hasLead =>
                req[r2].resps = SkipAnswer(IF PassedGate(r2) THEN SkippedDuplicate
                                           ELSE SkippedNoFields)
           /\ RowsBy(r1) = (IF req[r1].failure = "" THEN 1 ELSE 0)

\* the first request wrote its row, the second, with another caller name, was
\* skipped as a duplicate
C1_Witness ==
  \E r1, r2 \in Reqs :
    /\ Sequential(r1, r2)
    /\ RowsBy(r1) = 1
    /\ PassedGate(r2)
    /\ req[r2].lead.name # req[r1].lead.name
    /\ req[r2].resps = SkipAnswer(SkippedDuplicate)

\* C2: whatever the interleaving of the requests in flight, at most one of the
\* requests that carry a given non-empty call identifier ever issues an append
\* call, and an identifier is in seenCallIds from the moment its request
\* suspends at the append call (the check and the insertion are not separated
\* by a suspension point).
C2_WriteOncePerKey ==
  variant = "FINAL" =>
    /\ \A r1, r2 \in Reqs :
         (r1 # r2 /\ req[r1].calls > 0 /\ req[r2].calls > 0 /\ CarriedCallId(r1) # <<>>)
           => CarriedCallId(r1) # CarriedCallId(r2)
    /\ \A r \in Reqs :
         (req[r].calls > 0 /\ CarriedCallId(r) # <<>>) => CarriedCallId(r) \in seenCallIds

\* a request with the identifier of a request still suspended at its append
\* call has arrived meanwhile and has been skipped
C2_Witness ==
  \E r1, r2 \in Reqs :
    /\ variant = "FINAL"
    /\ req[r1].pc = "awaiting"
    /\ r1 \notin req[r2].pred
    /\ CarriedCallId(r2) = CarriedCallId(r1)
    /\ req[r2].resps = SkipAnswer(SkippedDuplicate)

\* C5: a request issues at most one append call; when the call rejects, the
\* handler answers HTTP 200 with { ok: false, error: String(err) }, once, and
\* the failed call leaves no row of that request in the sheet.
C5_FailedAppend ==
  \A r \in Reqs :
    /\ req[r].calls <= 1
    /\ req[r].failure # "" =>
         /\ req[r].pc = "done"
         /\ req[r].resps = <<[status |-> 200, ok |-> FALSE, wrote |-> FALSE,
                              skipped |-> "", error |-> req[r].failure,
                              callId |-> <<>>]>>
         /\ RowsBy(r) = 0

\* an append call has failed and has been answered, another has succeeded
C5_Witness ==
  \E r, q \in Reqs :
    /\ req[r].failure \in AppendErrors
    /\ req[r].calls = 1
    /\ Len(req[r].resps) = 1
    /\ RowsBy(q) = 1

\* the spreadsheet id is not set
NoSheetId == env.sheetId = <<>>

\* neither inline credentials nor a key file path is set
NoCredentials == env.inlineJson = <<>> /\ env.keyFile = <<>>

\* inline credentials are set, as JSON text that does not parse
UnparsableCredentials == startsWithBrace(env.inlineJson) /\ ~jsonParses(env.inlineJson)

\* no request has been served and no append call made
NothingServed ==
  /\ sheet = <<>>
  /\ \A r \in Reqs : req[r].pc = "idle" /\ req[r].calls = 0 /\ req[r].resps = <<>>

\* C7 as the spec states it: with the spreadsheet id missing, or the
\* credentials absent or unparsable, the process exits before it listens, and
\* serves no request and makes no append call.
C7_ExitsWithoutCredentials ==
  (proc # "starting" /\ (NoSheetId \/ NoCredentials \/ UnparsableCredentials))
    => (proc = "exited" /\ NothingServed)

\* the environments under which a variant exits at startup: no spreadsheet id;
\* FINAL with GOOGLE_CREDENTIALS set to a text that is no JSON; the other
\* variants with GCP_SERVICE_ACCOUNT_JSON a '{' text that is no JSON, or with
\* no such text and no key file path
FatalEnv ==
  \/ NoSheetId
  \/ variant = "FINAL" /\ env.inlineJson # <<>> /\ ~jsonParses(env.inlineJson)
  \/ variant # "FINAL" /\ UnparsableCredentials
  \/ variant # "FINAL" /\ ~startsWithBrace(env.inlineJson) /\ env.keyFile = <<>>

\* C7, amended: with the spreadsheet id missing, or inline credentials that do
\* not parse, or, in the variants that require explicit credentials, none set,
\* the process exits before it listens, serves no request and makes no append
\* call.  The FINAL variant does not exit when no credentials are set: it
\* falls back to the default credentials and listens.
C7_ExitsWhenFatal ==
  /\ (proc # "starting" /\ FatalEnv) => (proc = "exited" /\ NothingServed)
  /\ (proc # "starting" /\ variant = "FINAL" /\ ~NoSheetId /\ NoCredentials)
       => proc = "listening"
  /\ proc # "listening" => NothingServed

\* a variant that requires credentials has exited for want of them
C7_Witness ==
  /\ proc = "exited"
  /\ variant = "extractLead"
  /\ ~NoSheetId
  /\ NoCredentials

\* a response of the handler: status 200, ok: true with no error, or ok: false
\* with an error string
HandlerAnswer(a) ==
  /\ a.status = 200
  /\ a.ok <=> a.error = ""

\* C4: every request to POST /vapi/webhook eventually receives exactly one
\* response, the append call settling; the response has status 200, with
\* ok: true when a row was written or the request skipped and ok: false with an
\* error string when the handler threw; no request ends with another status.
C4_AlwaysAnswered200 ==
  /\ [](\A r \in Reqs :
          /\ Len(req[r].resps) <= 1
          /\ \A i \in DOMAIN req[r].resps : HandlerAnswer(req[r].resps[i]))
  /\ \A r \in Reqs :
       (req[r].pc # "idle") ~> (req[r].pc = "done" /\ Len(req[r].resps) = 1)

\* the handler of r has run to its await or to its response
Handled(r) == req[r].pc \in {"awaiting", "done"}

\* the column of each Lead field in the row (A is 1)
Column ==
  [name |-> 3, phone |-> 4, email |-> 5, role |-> 6, inquiry |-> 7,
   market |-> 8, dealSize |-> 9, urgency |-> 10, summary |-> 11]

\* the eight fields of the gate are all empty in the Lead
NoLeadField(lead) == \A k \in LeadFields : lead[k] = <<>>

\* the payload carries a summary text and nothing else
OnlySummary(p) ==
  /\ p.t = "object"
  /\ DOMAIN p.o = {"summary"}
  /\ p.o["summary"].t = "string"
  /\ trim(p.o["summary"].s) # <<>>

\* the handler issued no append call and answered { ok: true, skipped: no fields }
SkippedForNoFields(r) ==
  /\ req[r].calls = 0
  /\ req[r].resps = SkipAnswer(SkippedNoFields)

\* C3: a request whose normalized Lead has its eight non-summary fields empty
\* issues no append call and is answered HTTP 200 { ok: true, skipped }, the
\* empty payload {} and a payload with only a summary among them; a request
\* whose Lead has one of the eight fields non-empty is never skipped for this
\* reason.
C3_GateOnLeadFields ==
  \A r \in Reqs :
    variant = "FINAL" =>
      /\ req[r].hasLead => (NoLeadField(req[r].lead) <=> SkippedForNoFields(r))
      /\ (Handled(r) /\ (req[r].body = EmptyObject \/ OnlySummary(req[r].body)))
           => req[r].hasLead /\ NoLeadField(req[r].lead)

\* a payload that carries only a summary has been skipped
C3_Witness ==
  \E r \in Reqs :
    /\ variant = "FINAL"
    /\ OnlySummary(req[r].body)
    /\ req[r].lead.summary # <<>>
    /\ SkippedForNoFields(r)

\* what a structured-output lead supplies for each field, under the names
\* normalize reads
SoSupplies(p, k) == normalizeArgs(tryExtractLeadSO(p).val, Undefined)[k]

\* what caller and qualifications supply for each field
CqSupplies(p, k) == tryExtractCQ(p)[k]

\* a text that is not blank
IsText(v) == v.t = "string" /\ trim(v.s) # <<>>

\* C6: field by field, the value of the structured-output lead wins over its
\* caller/qualifications counterpart: with a non-empty structured-output value
\* for a field, the Lead and the cell of the written row hold that value; the
\* caller/qualifications value is used only when the structured-output one is
\* absent or empty.
C6_StructuredOutputWins ==
  \A r \in Reqs :
    (variant = "FINAL" /\ req[r].hasLead) =>
      \A k \in LeadFields :
        LET so == SoSupplies(PayloadOf(r), k)
            cq == CqSupplies(PayloadOf(r), k)
            expected == IF IsText(so) THEN trim(so.s)
                        ELSE IF IsText(cq) THEN trim(cq.s) ELSE <<>>
        IN ((so.t \in {"string", "undefined"}) /\ (cq.t \in {"string", "undefined"}))
             => /\ req[r].lead[k] = expected
                /\ req[r].calls > 0 => req[r].row[Column[k]] = Str(expected)

\* C8: whatever the payload, each of the nine Lead cells of a row handed to the
\* append call is a string, trimmed, and never null or undefined.
C8_CellsAreTrimmedStrings ==
  \A r \in Reqs :
    req[r].calls > 0 =>
      \A k \in DOMAIN Column :
        /\ req[r].row[Column[k]].t = "string"
        /\ trim(req[r].row[Column[k]].s) = req[r].row[Column[k]].s

\* an object whose properties are among keys and hold strings, or no object
StringsAt(v, keys) ==
  \/ v.t = "undefined"
  \/ /\ v.t = "object"
     /\ DOMAIN v.o \subseteq keys
     /\ \A k \in DOMAIN v.o : v.o[k].t = "string"

\* a payload of the README's shape: caller { name, phone, email },
\* qualifications { role, inquiry, market, deal_size, urgency } and summary,
\* strings all, beside the README's brokerage label or none
ReadmeShaped(p) ==
  /\ p.t = "object"
  /\ DOMAIN p.o \subseteq {"assistant", "caller", "qualifications", "summary"}
  /\ Get(p, "assistant") \in {Undefined, Get(ReadmeBody, "assistant")}
  /\ StringsAt(Get(p, "caller"), {"name", "phone", "email"})
  /\ StringsAt(Get(p, "qualifications"),
               {"role", "inquiry", "market", "deal_size", "urgency"})
  /\ Get(p, "summary").t \in {"string", "undefined"}

\* the value of the payload for field k, trimmed, '' when it has none
Supplied(p, k) ==
  LET v == getPath(p, FieldPath[k])
  IN IF v.t = "string" THEN trim(v.s) ELSE <<>>

\* cells C to K hold the values of the payload, trimmed
CellsAsSupplied(r) ==
  \A k \in DOMAIN Column : req[r].row[Column[k]] = Str(Supplied(req[r].body, k))

\* twelve cells: the timestamp, the brokerage label, the nine fields of the
\* Lead in their order, the Raw text
TwelveCells(r) ==
  /\ Len(req[r].row) = 12
  /\ req[r].row[1] \in {Str(timestampCell(iso)) : iso \in Instants}
  /\ variant = "FINAL" =>
       /\ req[r].row[2] = Str(brokerageOf(PayloadOf(r)))
       /\ \A k \in DOMAIN Column : req[r].row[Column[k]] = Str(req[r].lead[k])
       /\ req[r].row[12] = Str(smallRaw(req[r].lead, req[r].callId))

\* C9 as the spec states it: every row handed to the append call has the
\* twelve cells in their order; for a payload of the README's shape cells C
\* to K hold its values, trimmed, and the response is { ok: true }.
C9_RowAndOkAnswer ==
  \A r \in Reqs :
    /\ req[r].calls > 0 => TwelveCells(r)
    /\ (variant = "FINAL" /\ ReadmeShaped(req[r].body)) =>
         /\ req[r].calls > 0 => CellsAsSupplied(r)
         /\ req[r].pc = "done" =>
              /\ Len(req[r].resps) = 1
              /\ req[r].resps[1].status = 200
              /\ req[r].resps[1].ok

\* C9, amended: every row handed to the append call has the twelve cells in
\* their order.  In the FINAL variant, for a payload of the README's shape
\* with a non-blank value for one of the eight lead fields, the row is handed
\* to the append call with cells C to K holding the payload's values, trimmed,
\* and the response is { ok: true, wrote: true, callId } once the call has
\* succeeded and { ok: false, error } when it has failed; with no such value no
\* row is handed over and the response is { ok: true, skipped }.
C9_RowAndAnswer ==
  \A r \in Reqs :
    /\ req[r].calls > 0 => TwelveCells(r)
    /\ (variant = "FINAL" /\ ReadmeShaped(req[r].body) /\ Handled(r)) =>
         IF \E k \in LeadFields : Supplied(req[r].body, k) # <<>>
         THEN /\ req[r].calls = 1
              /\ CellsAsSupplied(r)
              /\ req[r].pc = "done" =>
                   req[r].resps =
                     (IF req[r].failure = ""
                      THEN <<Response(TRUE, TRUE, "", "", <<>>)>>
                      ELSE <<Response(FALSE, FALSE, "", req[r].failure, <<>>)>>)
         ELSE SkippedForNoFields(r)

\* the README's body example has been written to the sheet and answered
C9_Witness ==
  \E r \in Reqs :
    /\ variant = "FINAL"
    /\ req[r].body = ReadmeBody
    /\ RowsBy(r) = 1
    /\ sheet[1].values[Column.name] = ReadmeValues.name
    /\ sheet[1].values[Column.inquiry] = EmptyString
    /\ sheet[1].values[Column.dealSize] = ReadmeValues.dealSize
    /\ req[r].resps = <<Response(TRUE, TRUE, "", "", <<>>)>>

\* C10: the Email cell is the value the structured and legacy lookups found
\* when they found one, and is never replaced by one from the free text; when
\* they found none, it is the first well-formed address of the summary and
\* transcript text.
C10_EmailFallback ==
  \A r \in Reqs :
    (variant = "regexFallback" /\ req[r].calls > 0) =>
      LET found == lookups(PayloadOf(r)).email
      IN req[r].row[Column.email] =
           (IF found # EmptyString THEN found
            ELSE Str(firstEmail(textBlob(PayloadOf(r)))))

\* r1 and r2 are in flight together: each arrived before the other was answered
Concurrent(r1, r2) ==
  /\ r1 # r2
  /\ req[r1].pc # "idle"
  /\ req[r2].pc # "idle"
  /\ r1 \notin req[r2].pred
  /\ r2 \notin req[r1].pred

\* r1 and r2 carry one non-empty call identifier
SameCallId(r1, r2) ==
  /\ CarriedCallId(r1) # <<>>
  /\ CarriedCallId(r2) = CarriedCallId(r1)

\* a body the handler appends a row for when the de-duplication set is empty
WritesWhenUnseen(b) ==
  \A iso \in Instants : finalHandler(b, {}, iso).kind = "append"

\* the handler of r can run now and issue an append call: HandleFinal is
\* enabled and its outcome is an append
CanAppend(r) ==
  /\ variant = "FINAL"
  /\ req[r].pc = "arrived"
  /\ \E iso \in Instants :
       finalHandler(req[r].body, seenCallIds, iso).kind = "append"

\* C11 as the spec states it: of two concurrent requests with the same
\* non-empty call identifier, the second can pass the "not seen" check although
\* the first has passed it and issued its append call, so that both issue an
\* append call and two rows are written for one identifier.
C11_BothCanAppend ==
  \A r1, r2 \in Reqs :
    (/\ variant = "FINAL"
     /\ Concurrent(r1, r2)
     /\ SameCallId(r1, r2)
     /\ req[r1].calls > 0
     /\ req[r2].pc = "arrived"
     /\ WritesWhenUnseen(req[r2].body))
      => CanAppend(r2)

\* the rows of the sheet written by requests that carry call identifier c
RowsFor(c) ==
  Cardinality({i \in DOMAIN sheet : CarriedCallId(sheet[i].by) = c})

\* C11, amended: two concurrent requests with the same non-empty call
\* identifier cannot both pass the "not seen" check: the check and the
\* insertion run with no suspension between them, so no execution has both
\* issue an append call or two rows written for one identifier; the request
\* whose handler runs second is answered 'already wrote for this call'.
C11_NoDuplicateRow ==
  \A r1, r2 \in Reqs :
    (variant = "FINAL" /\ Concurrent(r1, r2) /\ SameCallId(r1, r2)) =>
      /\ ~(req[r1].calls > 0 /\ req[r2].calls > 0)
      /\ RowsFor(CarriedCallId(r1)) <= 1
      /\ (req[r1].calls > 0 /\ req[r2].pc = "arrived") => ~CanAppend(r2)
      /\ (req[r1].calls > 0 /\ Handled(r2) /\ PassedGate(r2))
           => req[r2].resps = SkipAnswer(SkippedDuplicate)

\* two concurrent requests with one identifier and meaningful Leads are both
\* answered: one wrote the only row, the other was skipped as a duplicate
C11_Witness ==
  \E r1, r2 \in Reqs :
    /\ variant = "FINAL"
    /\ Concurrent(r1, r2)
    /\ SameCallId(r1, r2)
    /\ RowsBy(r1) = 1
    /\ req[r1].pc = "done"
    /\ PassedGate(r2)
    /\ req[r2].resps = SkipAnswer(SkippedDuplicate)
    /\ RowsFor(CarriedCallId(r1)) = 1

\* this step issues the append call of r
IssuesAppend(r) == req'[r].calls > req[r].calls

\* C12: at the step that issues the append call of a request with a non-empty
\* call identifier, the identifier is in the de-duplication set, while the
\* request is suspended at the call and before any row of it is in the sheet:
\* it is recorded before the write starts, not after it completes.
C12_RecordedBeforeWrite ==
  [][\A r \in Reqs :
       (variant = "FINAL" /\ IssuesAppend(r) /\ CarriedCallId(r) # <<>>) =>
         /\ CarriedCallId(r) \in seenCallIds'
         /\ req'[r].pc = "awaiting"
         /\ sheet' = sheet
         /\ RowsBy(r) = 0]_vars

\* an append call is pending for an identifier that is in the set, no row of
\* the request being in the sheet yet
C12_Witness ==
  \E r \in Reqs :
    /\ variant = "FINAL"
    /\ req[r].pc = "awaiting"
    /\ req[r].calls = 1
    /\ CarriedCallId(r) # <<>>
    /\ CarriedCallId(r) \in seenCallIds
    /\ RowsBy(r) = 0

\* the sheet is left as it is or gets one more row, appended at its end
SheetGrows ==
  \/ sheet' = sheet
  \/ /\ Len(sheet') = Len(sheet) + 1
     /\ SubSeq(sheet', 1, Len(sheet)) = sheet

\* C13: the de-duplication set only grows: every step, whichever path the
\* handler takes (row written, request skipped, append failed), keeps every
\* identifier the set holds; and the set is the only state of the process
\* that requests share: a step changes the record of at most one request, and
\* beside it only the set and, by appending a row, the sheet.
C13_SetOnlyGrows ==
  [][/\ seenCallIds \subseteq seenCallIds'
     /\ \A r1, r2 \in Reqs :
          (req'[r1] # req[r1] /\ req'[r2] # req[r2]) => r1 = r2
     /\ (\E r \in Reqs : req'[r] # req[r]) => (variant' = variant /\ env' = env /\ proc' = proc)
     /\ SheetGrows
     /\ seenCallIds' # seenCallIds =>
          \E r \in Reqs : IssuesAppend(r) /\ seenCallIds' = seenCallIds \cup {CarriedCallId(r)}]_vars

\* every request has been answered and the set holds the identifiers of two
\* of them, one of which failed to append
C13_Witness ==
  /\ Cardinality(seenCallIds) = 2
  /\ \A r \in Reqs : req[r].pc = "done"
  /\ \E r \in Reqs : req[r].failure # "" /\ CarriedCallId(r) \in seenCallIds

\* the Raw cell (column L) of the row request r handed to the append call
RawCell(r) == req[r].row[12]

\* the cells Name to Summary (columns C to K): the Lead as the row carries it
LeadCells(r) == SubSeq(req[r].row, 3, 11)

\* the number of characters each variant cuts its Raw cell to
RawBudget(v) ==
  CASE v = "FINAL" -> SmallRawLimit
    [] v = "regexFallback" -> OneLineLimit
    [] v = "extractLead" -> CompactRawLimit
    [] v = "fullPayload" -> FullRawLimit

\* the Raw cell of r is a text of at most n characters
RawWithin(r, n) == RawCell(r).t = "string" /\ Len(RawCell(r).s) <= n

\* the Raw cell is made of the Lead (and the call id) only: two rows of the
\* same Lead and call id have the same Raw cell
RawFromLead(r) ==
  \A q \in Reqs :
    (req[q].calls > 0 /\ LeadCells(q) = LeadCells(r) /\ req[q].callId = req[r].callId)
      => RawCell(q) = RawCell(r)

\* C14: in every row handed to the append call the Raw cell is derived from
\* the normalized Lead, not from the inbound payload, and is no longer than
\* the variant's character budget, which is 1000 characters at most.
C14_RawWithinBudget ==
  \A r \in Reqs :
    req[r].calls > 0 =>
      /\ RawBudget(variant) <= 1000
      /\ RawWithin(r, RawBudget(variant))
      /\ RawFromLead(r)
\* ------------------------------------------- reading a Raw cell back
\* JSON.parse of the text of a Raw cell: objects, strings, numbers and null.

RECURSIVE SlashesBefore(_, _)
\* the number of backslashes that end just before s[i]
SlashesBefore(s, i) ==
  IF i <= 1 \/ s[i - 1] # "\\" THEN 0 ELSE 1 + SlashesBefore(s, i - 1)

\* the quotes that open or close a string: those not escaped
QuotesOf(s) == {i \in 1..Len(s) : s[i] = "\"" /\ SlashesBefore(s, i) % 2 = 0}

\* the n-th smallest member of a set of numbers
Nth(S, n) == CHOOSE x \in S : Cardinality({y \in S : y <= x}) = n

\* the character an escape sequence \c stands for
unescapeChar(c) ==
  CASE c = "n" -> "\n"
    [] c = "r" -> "\r"
    [] c = "t" -> "\t"
    [] OTHER -> c

\* whether t[i] is the backslash that starts an escape sequence
EscapeStart(t, i) == i >= 1 /\ t[i] = "\\" /\ SlashesBefore(t, i) % 2 = 0

\* the string a string literal stands for, t what is between its quotes
unescape(t) ==
  Concat([i \in 1..Len(t) |->
            IF EscapeStart(t, i) THEN <<>>
            ELSE IF EscapeStart(t, i - 1) THEN <<unescapeChar(t[i])>>
            ELSE <<t[i]>>])

\* the property name a text spells, the text itself when it is none of the
\* names a Raw cell holds
KeyNamed(text) ==
  LET Known == Range(LeadOrder) \cup {"lead", "callId"}
  IN IF \E k \in Known : KeyText(k) = text
     THEN CHOOSE k \in Known : KeyText(k) = text
     ELSE "?"

\* The structure of a JSON text: its quotes q, and the braces and commas that
\* are outside every string.
Structure(s) ==
  LET q == QuotesOf(s)
      out == {i \in 1..Len(s) :
                s[i] \in {"{", "}", "[", "]", ","}
                /\ Cardinality({j \in q : j < i}) % 2 = 0}
  IN [q |-> q,
      opens |-> {i \in out : s[i] \in {"{", "["}},
      closes |-> {i \in out : s[i] \in {"}", "]"}},
      commas |-> {i \in out : s[i] = ","}]

\* how many objects and arrays are open before s[i]
DepthAt(st, i) ==
  Cardinality({j \in st.opens : j < i}) - Cardinality({j \in st.closes : j < i})

\* the ends of the parts of the object or array s[lo..hi]: its brace, the
\* commas between its members, its closing brace
PartEnds(st, lo, hi) ==
  {lo, hi} \cup {c \in st.commas : lo < c /\ c < hi /\ DepthAt(st, c) = DepthAt(st, lo) + 1}

RECURSIVE parseRange(_, _, _, _)
\* the value the JSON text s[lo..hi] stands for, st the structure of s
parseRange(s, st, lo, hi) ==
  IF lo > hi THEN Undefined
  ELSE IF s[lo] = "\"" THEN Str(unescape(SubSeq(s, lo + 1, hi - 1)))
  ELSE IF s[lo] \in {"{", "["} /\ hi = lo + 1
    THEN (IF s[lo] = "{" THEN EmptyObject ELSE Arr(<<>>))
  ELSE IF s[lo] = "[" THEN
    LET ends == PartEnds(st, lo, hi)
    IN Arr([i \in 1..(Cardinality(ends) - 1) |->
              parseRange(s, st, Nth(ends, i) + 1, Nth(ends, i + 1) - 1)])
  ELSE IF s[lo] = "{" THEN
    LET ends == PartEnds(st, lo, hi)
        n == Cardinality(ends) - 1
        keyEnd(i) == SetMin({j \in st.q : j > Nth(ends, i) + 1})
        key(i) == KeyNamed(unescape(SubSeq(s, Nth(ends, i) + 2, keyEnd(i) - 1)))
    IN Obj([k \in {key(i) : i \in 1..n} |->
              LET i == SetMax({j \in 1..n : key(j) = k})
              IN parseRange(s, st, keyEnd(i) + 2, Nth(ends, i + 1) - 1)])
  ELSE IF SubSeq(s, lo, hi) = <<"n","u","l","l">> THEN Null
  ELSE Num(SubSeq(s, lo, hi))

\* JSON.parse(s) of a JSON text
parseJson(s) == parseRange(s, Structure(s), 1, Len(s))

\* the Lead a Raw cell holds: under lead in FINAL, the text itself in the
\* regex-fallback variant
LeadRead(r) ==
  IF variant = "FINAL" THEN Get(parseJson(RawCell(r).s), "lead")
  ELSE parseJson(RawCell(r).s)

\* the Raw cell of r is shorter than the budget, so nothing was cut from it
RawUncut(r) == RawCell(r).t = "string" /\ Len(RawCell(r).s) < RawBudget(variant)

\* the cells Name to Urgency of the row of r are trimmed texts
TrimmedCells(r) ==
  \A k \in LeadFields :
    /\ req[r].row[Column[k]].t = "string"
    /\ trim(req[r].row[Column[k]].s) = req[r].row[Column[k]].s

\* C15: for every row handed to the append call whose Raw cell was not cut
\* (and whose cells Name to Urgency are trimmed texts), the Lead read back
\* from the Raw cell has, once normalized, the values of those cells.
C15_RawRoundTrip ==
  \A r \in Reqs :
    (/\ variant \in {"FINAL", "regexFallback"}
     /\ req[r].calls > 0
     /\ RawUncut(r)
     /\ TrimmedCells(r)) =>
      LET lead == LeadRead(r)
      IN \A k \in LeadFields : req[r].row[Column[k]] = Str(clean(Get(lead, k)))
\* the words a role text is matched against, and the role each stands for
RoleVocabulary ==
  {<<"o","w","n","e","r">>, <<"b","u","y","e","r">>, <<"l","e","n","d","e","r">>,
   <<"g","e","n","e","r","a","l">>, <<"i","n","q","u","i","r","y">>}

RoleOf(w) == IF w = <<"i","n","q","u","i","r","y">> THEN <<"g","e","n","e","r","a","l">> ELSE w

\* the role text the lookups found in the payload of r, in lower case
RoleTextOf(r) == toLowerCase(safe(lookups(PayloadOf(r)).role))

\* C16: in the regex-fallback variant the Role cell of every row handed to
\* the append call is owner, buyer, lender, general or empty: it is the role
\* of a word of the vocabulary that occurs in the role text, whatever the
\* case (general for general and for inquiry), and it is empty exactly when
\* no word of the vocabulary occurs in the text.
C16_RoleVocabulary ==
  \A r \in Reqs :
    (variant = "regexFallback" /\ req[r].calls > 0) =>
      LET cell == req[r].row[Column["role"]]
          found == {w \in RoleVocabulary : Contains(RoleTextOf(r), w)}
      IN /\ cell.t = "string"
         /\ cell.s \in {RoleOf(w) : w \in RoleVocabulary} \cup {<<>>}
         /\ cell.s # <<>> => cell.s \in {RoleOf(w) : w \in found}
         /\ cell.s = <<>> <=> found = {}

\* a row is written whose Role cell is a word found inside a longer text in
\* another case
C16_Witness ==
  \E r \in Reqs :
    /\ variant = "regexFallback"
    /\ RowsBy(r) = 1
    /\ sheet[1].values[Column["role"]] = Str(<<"g","e","n","e","r","a","l">>)
    /\ safe(lookups(PayloadOf(r)).role) = <<"a","n"," ","I","N","Q","U","I","R","Y">>
\* the append call of r1 failed, r1 carries a call identifier, and r2 is
\* another request that carries the same one
FailedFor(r1, r2) ==
  /\ variant = "FINAL"
  /\ r1 # r2
  /\ req[r1].failure # ""
  /\ CarriedCallId(r1) # <<>>
  /\ CarriedCallId(r2) = CarriedCallId(r1)

\* no response sent to r says wrote: true
NeverWrote(r) == \A i \in DOMAIN req[r].resps : ~req[r].resps[i].wrote

\* C17 as the spec states it: once the append call of a request with a call
\* identifier has failed, every later request with that identifier is
\* answered 'already wrote for this call', and no row is written for the call.
C17_LaterAlwaysSkipped ==
  \A r1, r2 \in Reqs :
    (FailedFor(r1, r2) /\ r1 \in req[r2].pred /\ req[r2].pc = "done") =>
      /\ req[r2].resps = SkipAnswer(SkippedDuplicate)
      /\ RowsFor(CarriedCallId(r1)) = 0

\* C17, amended: once the append call of a request with a call identifier has
\* failed, the identifier is in seenCallIds for good and the sheet never holds
\* a row for it; another request with that identifier issues no append call,
\* is never answered wrote: true, and is answered 'already wrote for this
\* call' when its handler reaches the de-duplication check, that is when its
\* Lead has a field other than summary.
C17_FailedAppendKeepsId ==
  \A r1, r2 \in Reqs :
    FailedFor(r1, r2) =>
      /\ CarriedCallId(r1) \in seenCallIds
      /\ RowsFor(CarriedCallId(r1)) = 0
      /\ req[r2].calls = 0
      /\ NeverWrote(r2)
      /\ (Handled(r2) /\ PassedGate(r2)) => req[r2].resps = SkipAnswer(SkippedDuplicate)

\* the append call of the first request failed, and a request that arrived
\* afterwards with the same identifier and a name was answered as a duplicate
C17_Witness ==
  \E r1, r2 \in Reqs :
    /\ FailedFor(r1, r2)
    /\ r1 \in req[r2].pred
    /\ PassedGate(r2)
    /\ req[r2].resps = SkipAnswer(SkippedDuplicate)
    /\ sheet = <<>>
\* the handler of r runs in this step
HandledNow(r) == req[r].pc = "arrived" /\ req'[r].pc \in {"awaiting", "done"}

\* no request other than r with the call identifier of r has been handled,
\* unless it was skipped for having no field
OnlyFieldlessBefore(r) ==
  \A q \in Reqs \ {r} :
    CarriedCallId(q) = CarriedCallId(r) =>
      (req[q].pc \in {"idle", "arrived"} \/ SkippedForNoFields(q))

\* C18 as the spec states it: after a request with a call identifier was
\* skipped for having no meaningful field, a later request with the same
\* identifier and a meaningful Lead writes a row.
C18_LaterWritesRow ==
  \A r1, r2 \in Reqs :
    (/\ variant = "FINAL"
     /\ r1 # r2
     /\ SkippedForNoFields(r1)
     /\ CarriedCallId(r1) # <<>>
     /\ CarriedCallId(r2) = CarriedCallId(r1)
     /\ r1 \in req[r2].pred
     /\ OnlyFieldlessBefore(r2)
     /\ PassedGate(r2)
     /\ req[r2].pc = "done") => RowsBy(r2) = 1

\* C18, amended: a request skipped for having no meaningful field, or as a
\* duplicate, changes neither seenCallIds nor the sheet nor another request
\* and issues no append call, whether it carries a call identifier or not; so
\* a request with a call identifier and a meaningful Lead, before which only
\* requests skipped for having no field were handled with that identifier,
\* issues the append call, and its row is in the sheet once the call succeeds.
C18_SkipsChangeNothing ==
  [][\A r \in Reqs :
       variant = "FINAL" =>
         /\ (/\ HandledNow(r)
             /\ req'[r].resps \in {SkipAnswer(SkippedNoFields),
                                   SkipAnswer(SkippedDuplicate)}) =>
               /\ seenCallIds' = seenCallIds
               /\ sheet' = sheet
               /\ req'[r].calls = 0
               /\ \A q \in Reqs \ {r} : req'[q] = req[q]
         /\ (/\ HandledNow(r)
             /\ PassedGate(r)'
             /\ CarriedCallId(r) # <<>>
             /\ OnlyFieldlessBefore(r)) =>
               /\ req'[r].calls = 1
               /\ req'[r].pc = "awaiting"
         /\ (req[r].pc = "awaiting" /\ req'[r].pc = "done" /\ req'[r].failure = "") =>
               RowsBy(r)' = 1]_vars

\* a request with a call identifier was skipped for having no field, and a
\* later one with that identifier and a name has its row in the sheet
C18_Witness ==
  \E r1, r2 \in Reqs :
    /\ variant = "FINAL"
    /\ SkippedForNoFields(r1)
    /\ CarriedCallId(r1) # <<>>
    /\ CarriedCallId(r2) = CarriedCallId(r1)
    /\ r1 \in req[r2].pred
    /\ PassedGate(r2)
    /\ RowsBy(r2) = 1
    /\ seenCallIds = {CarriedCallId(r1)}
\* the responses sent to r that say wrote: true
WroteAnswers(r) == {i \in DOMAIN req[r].resps : req[r].resps[i].wrote}

\* the requests answered wrote: true
WroteReqs == {r \in Reqs : WroteAnswers(r) # {}}

\* C19: a request is answered { ok: true, wrote: true } only once its append
\* call has succeeded and its row is in the sheet; the responses that say
\* wrote: true are never more than the rows of the sheet; a request whose
\* append call failed or was never issued is never answered wrote: true.
C19_WroteOnlyAfterAppend ==
  /\ \A r \in WroteReqs :
       /\ req[r].calls = 1
       /\ req[r].pc = "done"
       /\ req[r].failure = ""
       /\ RowsBy(r) = 1
       /\ req[r].resps = <<Response(TRUE, TRUE, "", "", req[r].callId)>>
  /\ Cardinality(WroteReqs) <= Len(sheet)
  /\ \A r \in Reqs : (req[r].failure # "" \/ req[r].calls = 0) => WroteAnswers(r) = {}

\* one request was answered wrote: true and its row is the only one of the
\* sheet; the append call of another failed and it was answered ok: false
C19_Witness ==
  \E r1, r2 \in Reqs :
    /\ variant = "FINAL"
    /\ r1 \in WroteReqs
    /\ RowsBy(r1) = 1
    /\ Len(sheet) = 1
    /\ req[r2].failure # ""
    /\ req[r2].resps = <<catchResponse(req[r2].failure)>>
====
